---- MODULE Spec2Model ----
(***************************************************************************)
(* Model of the frame presentation state machine of psydk:                 *)
(* Window::present (psydk/src/visual/window.rs), the Frame it presents,    *)
(* and the frame bookkeeping of WindowState.                               *)
(*                                                                         *)
(* Floating point values (repeat_time, the refresh rate, the fractional    *)
(* frame count) are modelled as exact rationals [num, den] with den > 0.   *)
(* Instant::now() is modelled by a logical clock: the length of the        *)
(* trace of steps the present call has performed so far.                   *)
(***************************************************************************)
EXTENDS Integers, Sequences, FiniteSets, TLC

\* ---------------------------------------------------------------- bounds
\* largest repeat_frames argument tried
MaxRepeat == 2
\* largest repeat_time argument tried, in units of 1/TimeDen seconds
MaxTimeNum == 4
\* longest stimulus list of a frame
MaxStimuli == 2
\* number of present calls that get a frame id in one behaviour
MaxCalls == 2

\* repeat_time arguments are the rationals tn / TimeDen seconds: quarters of a frame
\* at 60 Hz, halves of a frame at 120 Hz
TimeDen == 4 * 60

Stimuli == {1, 2}
HandlerIds == {1}
EventKinds == {"Onset", "KeyPress"}
\* refresh rates the monitor may report, in millihertz
RefreshRates == {60000, 120000}

\* Option<T>: None is the empty sequence, Some(v) the one-element sequence
None == <<>>
Some(v) == <<v>>
IsSome(o) == Len(o) = 1
IsNone(o) == Len(o) = 0
Unwrap(o) == o[1]
UnwrapOr(o, d) == IF IsSome(o) THEN o[1] ELSE d

\* ------------------------------------------------------------ f64 as rationals
RECURSIVE GCD(_, _)
GCD(a, b) == IF b = 0 THEN a ELSE GCD(b, a % b)
IAbs(x) == IF x < 0 THEN -x ELSE x
\* the rational n / d in lowest terms, d > 0
Rat(n, d) == LET g == GCD(IAbs(n), d) IN [num |-> n \div g, den |-> d \div g]
FSub(a, b) == Rat(a.num * b.den - b.num * a.den, a.den * b.den)
\* division by a positive value
FDiv(a, b) == Rat(a.num * b.den, a.den * b.num)
FAbs(a) == Rat(IAbs(a.num), a.den)
FGt(a, b) == a.num * b.den > b.num * a.den
FRoundMagnitude(n, d) == (2 * n + d) \div (2 * d)
\* mutant of FRound: truncation toward zero
FRoundTrunc(a) == Rat(IF a.num < 0 THEN -(IAbs(a.num) \div a.den) ELSE a.num \div a.den, 1)
\* f64::round: to the nearest integer, half-way cases away from zero
FRound(a) == Rat(IF a.num < 0 THEN -FRoundMagnitude(IAbs(a.num), a.den) ELSE FRoundMagnitude(a.num, a.den), 1)
\* `x as u32` of an integral f64: negative values saturate to 0 (the values of
\* this model stay far below u32::MAX, where the cast saturates too)
AsU32(a) == IF a.num < 0 THEN 0 ELSE a.num

\* the tolerance 0.0001 of the pedantic check
Tolerance == Rat(1, 10000)
\* ExperimentConfig::default().pedantic
ConfigPedantic == TRUE

VARIABLES
  dx12,            \* build: cfg(all(feature = "dx12", target_os = "windows"))
  state_open,      \* Window.state is Some(WindowState)
  monitor_rate,    \* refresh_rate_millihertz of the current monitor, None if unknown
  last_frame_id,   \* WindowState.last_frame_id
  frame_queue,     \* WindowState.frame_queue
  frame_callbacks, \* WindowState.frame_callbacks: frame id -> handler ids of the closure
  frame,           \* the Frame being built/presented: stimuli, event_handlers
  pc,              \* position of the experiment thread
  args,            \* arguments of the present call in progress
  refresh_rate,    \* local refresh_rate
  repeat_n,        \* local repeat_frames (resolved, u32)
  i,               \* loop variable of the present loop
  stim_idx,        \* position in frame.stimuli of the inner loop
  new_frame_id,    \* local new_frame_id
  surface_texture, \* the acquired swapchain texture, None outside an iteration
  scene,           \* the Scene of the iteration, None outside an iteration
  surface_size,    \* suface_texture.texture.size(): width and height of the acquired texture
  scene_props,     \* the SkiaScene of the iteration: its width, height and clear colour
  scenes_created,  \* number of Scenes created so far by this call
  onset_time,      \* local onset_time
  wait_timed_out,  \* some WaitForSingleObject of this call returned WAIT_TIMEOUT
  result,          \* outcome of the call
  log,             \* trace of the steps of the call in progress
  snap,            \* frame bookkeeping when the call started
  assigned         \* frame ids assigned by the calls so far

\* ------------------------------------------------ the window's surface and its locks
VARIABLES
  size,            \* WindowState.size
  surface_config,  \* WindowState.config.width, .height as last given to surface.configure
  texture,         \* WgpuRenderer.texture: the intermediate texture, by its dimensions
  bind_group,      \* WgpuRenderer.bind_group: the dimensions of the texture it binds
  mouse_position,  \* WindowState.mouse_position
  d_pc,            \* position of the display thread (the winit event loop)
  d_size,          \* the size carried by the Resized event being handled
  d_holds,         \* the locks ("gpu", "state") whose guards the display thread holds
  d_during,        \* number of the present call in flight when that event arrived, else 0
  last_resize      \* the size of the last Window::resize that returned

surf_vars == <<size, surface_config, texture, bind_group>>
disp_vars == <<mouse_position, d_pc, d_size, d_holds, d_during, last_resize>>

\* ------------------------------------------------ the rest of the WindowState
VARIABLES
  mouse_cursor_visible, \* WindowState.mouse_cursor_visible
  os_cursor_visible,    \* the cursor visibility last given to the winit window
  bg_color,             \* WindowState.bg_color
  event_handlers,       \* WindowState.event_handlers: id -> kind
  op_result             \* the call on the Window handle that has just ended, and how

handle_vars == <<mouse_cursor_visible, os_cursor_visible, bg_color, event_handlers, op_result>>

\* ------------------------------------------------ the event loop and its requesters
VARIABLES
  action_queue,    \* the mpsc channel of EventLoopActions: App.action_receiver
  wakeups,         \* user events sent through the EventLoopProxy and not yet delivered
  loop_state,      \* the winit event loop: "running", "exited" or "panicked"
  t_pc,            \* position of each experiment thread in its request
  t_count,         \* number of requests each experiment thread has issued
  reply_chan,      \* the reply channel of the request of each thread
  x_pc,            \* position of the wrapper that sends Exit when experiment_fn is over
  handled,         \* the actions user_event has dequeued, in order, and how each ended
  sent,            \* the requests in the order they were sent
  empty_wakeups    \* number of user events delivered while the channel was empty

loop_vars == <<action_queue, wakeups, loop_state, t_pc, t_count, reply_chan, x_pc, handled, sent,
               empty_wakeups>>

\* ------------------------------------------------ the compositor's lookup table
VARIABLES
  lut,               \* the lut argument of WgpuRenderer::new: None or the image's dimensions
  encode_gamma,      \* the encode_gamma argument
  l_pc,              \* position in WgpuRenderer::new
  lut_texture_array, \* the LUT texture array, None before it is created
  lut_texture_data,  \* the local lut_texture_data, None before it is built
  lut_writes         \* the queue.write_texture calls on the LUT texture, in order

lut_vars == <<lut, encode_gamma, l_pc, lut_texture_array, lut_texture_data, lut_writes>>

\* ------------------------------------------------ hit tests of a stimulus
VARIABLES
  c_stim,          \* the image or video stimulus: kind, params x, y, width, height, transformation
  c_point,         \* the arguments x, y of the last contains call
  c_result         \* what that call returned: "none" before any call, "true", "false", "Panic"

contains_vars == <<c_stim, c_point, c_result>>

\* ------------------------------------------------ the creation of a video stimulus
VARIABLES
  v_pc,            \* position of the thread in VideoStimulus::from_path
  media,           \* what the file at path holds
  status,          \* the SwappableValue<VideoState> shared with the pipeline's callbacks
  gst_pc,          \* the pipeline's streaming thread: "null", "prerolling", "done"
  bus_pc,          \* the thread spawned by start_pipeline: "none", "running", "ended"
  bus_msgs,        \* the messages on the pipeline's bus not yet taken by that thread
  pipeline_state   \* the state of the gstreamer pipeline

video_vars == <<v_pc, media, status, gst_pc, bus_pc, bus_msgs, pipeline_state>>

\* ------------------------------------------------ the outcome of App::run_experiment
VARIABLES
  res,             \* what experiment_fn returned: "none" while it runs, "Ok" or "Err"
  error_mutex,     \* error_mutex: None or Some error
  run_result       \* what run_experiment returned: "none" before it returns, "Ok" or "Err"

run_vars == <<res, error_mutex, run_result>>

\* ------------------------------------------------ a thread that hit-tests a stimulus
VARIABLES
  k_pc,            \* position of the thread: "idle", "contains" (in contains), "panicked"
  k_stim           \* the stimulus whose lock the thread holds, 0 if none

hit_vars == <<k_pc, k_stim>>

\* ------------------------------------------------ two windows on the shared gpu state
VARIABLES
  w_open,          \* for each window: its state is Some(WindowState)
  poisoned,        \* the mutexes a thread has panicked in while holding their guard
  m_pc,            \* for each thread: its position in the operation it performs
  m_op,            \* for each thread: the operation and the window it is on
  m_holds,         \* for each thread: the mutexes whose guards it holds
  m_result         \* for each thread: how its last operation ended

multi_vars == <<w_open, poisoned, m_pc, m_op, m_holds, m_result>>

\* ------------------------------------------------ the handlers dispatch_event calls
VARIABLES
  d_handlers       \* the local event_handlers of dispatch_event: the clone of the registry

tail_vars == <<run_vars, hit_vars, multi_vars, d_handlers>>

\* what the present call and the display thread never touch
more_vars == <<handle_vars, loop_vars, lut_vars, contains_vars, video_vars, tail_vars>>

ext_vars == <<surf_vars, disp_vars, more_vars>>

vars == <<ext_vars,
          dx12, state_open, monitor_rate, last_frame_id, frame_queue, frame_callbacks,
          frame, pc, args, refresh_rate, repeat_n, i, stim_idx, new_frame_id,
          surface_texture, scene, surface_size, scene_props, scenes_created, onset_time,
          wait_timed_out, result, log, snap, assigned>>

win_vars == <<state_open, last_frame_id, frame_queue, frame_callbacks>>
env_vars == <<dx12, monitor_rate>>
call_vars == <<args, refresh_rate, repeat_n, i, stim_idx, new_frame_id, surface_texture,
               scene, surface_size, scene_props, scenes_created, onset_time, wait_timed_out, result, log, snap,
               assigned>>
main_vars == <<win_vars, env_vars, frame, pc, call_vars>>

\* the clock: Instant::now()
Now == Len(log)
Ev(op, it, sc, id, hs) == [op |-> op, i |-> it, scene |-> sc, id |-> id, handlers |-> hs]
Emit(op, id, hs) == Append(log, Ev(op, i, UnwrapOr(scene, 0), id, hs))

Bookkeeping == [last_frame_id |-> last_frame_id, frame_queue |-> frame_queue,
                frame_callbacks |-> frame_callbacks]

Idle == pc = "idle"

\* window sizes in pixels: winit's inner_size and the payloads of Resized events
PixelSizes == {<<800, 600>>, <<1024, 768>>}
InitialSize == <<800, 600>>

PixelSize(wh) == [width |-> wh[1], height |-> wh[2]]

\* the two mutexes: ExperimentContext.gpu_state / Window.gpu_state and Window.state
Locks == {"gpu", "state"}

\* Window::present locks the gpu state, then the window state
PresentLockOrder == <<"gpu", "state">>

\* the positions of present at which both guards of lines 224-225 are alive
HoldingPcs == {"resolve", "register", "acquire", "create_scene", "update", "draw", "rasterize",
               "composite", "present", "wait", "onset", "finish"}

\* the guards the experiment thread holds: they live from their let to the end of present
ExpHolds ==
  IF pc = "lock2" THEN {PresentLockOrder[1]}
  ELSE IF pc \in HoldingPcs THEN Locks ELSE {}

\* VideoStimulus::from_path holds the guard of context.gpu_state from its first line to
\* its return
VideoHolds == IF v_pc \in {"create", "set_paused", "poll", "texture"} THEN {"gpu"} ELSE {}

\* Mutex::lock by the experiment thread returns once no other thread holds the guard
ExpCanLock(l) == l \notin d_holds \cup VideoHolds

\* App::create_window: size is winit_window.inner_size(), the surface is configured with it
\* and WgpuRenderer::new creates the texture and its bind group from window.inner_size()
\* (read a second time: here a window whose inner size is the same at both reads)
SurfInit ==
  /\ size = PixelSize(InitialSize)
  /\ surface_config = PixelSize(InitialSize)
  /\ texture = PixelSize(InitialSize)
  /\ bind_group = [texture |-> PixelSize(InitialSize)]

\* the display thread is in the event loop, between two events
DispInit ==
  /\ mouse_position = None
  /\ d_pc = "idle"
  /\ d_size = PixelSize(InitialSize)
  /\ d_holds = {}
  /\ d_during = 0
  /\ last_resize = None

Colors == {"grey", "black"}
NoOp == [op |-> "none", outcome |-> "none", value |-> "()"]

\* App::create_window: winit_window.set_cursor_visible(true), mouse_cursor_visible: true,
\* bg_color grey, no event handlers
HandleInit ==
  /\ mouse_cursor_visible = TRUE
  /\ os_cursor_visible = TRUE
  /\ bg_color = "grey"
  /\ event_handlers = <<>>
  /\ op_result = NoOp

\* the threads of the experiment that issue requests
Threads == {1, 2}
\* requests one thread issues in a behaviour
MaxRequests == 1

\* App::run_experiment: the loop has started, the experiment threads have issued nothing
LoopInit ==
  /\ action_queue = <<>>
  /\ wakeups = 0
  /\ loop_state = "running"
  /\ t_pc = [t \in Threads |-> "ready"]
  /\ t_count = [t \in Threads |-> 0]
  /\ reply_chan = [t \in Threads |-> <<>>]
  /\ x_pc = "running"
  /\ handled = <<>>
  /\ sent = <<>>
  /\ empty_wakeups = 0

\* before WgpuRenderer::new is called
LutInit ==
  /\ lut = None
  /\ encode_gamma = TRUE
  /\ l_pc = "idle"
  /\ lut_texture_array = None
  /\ lut_texture_data = None
  /\ lut_writes = <<>>

\* a length in a unit: pixels or millimetres
Size(unit, value) == [unit |-> unit, value |-> value]

\* no stimulus yet: a placeholder image stimulus of no extent, never hit-tested
ContainsInit ==
  /\ c_stim = [kind |-> "none", x |-> Size("px", 0), y |-> Size("px", 0),
               width |-> Size("px", 0), height |-> Size("px", 0),
               transformation |-> [kind |-> "Identity", dx |-> Size("px", 0),
                                   dy |-> Size("px", 0)]]
  /\ c_point = [x |-> Size("px", 0), y |-> Size("px", 0)]
  /\ c_result = "none"

\* no video stimulus is being created
VideoInit ==
  /\ v_pc = "idle"
  /\ media = "none"
  /\ status = "NotReady"
  /\ gst_pc = "null"
  /\ bus_pc = "none"
  /\ bus_msgs = <<>>
  /\ pipeline_state = "Null"

\* App::run_experiment: experiment_fn runs, error_mutex is Mutex::new(None)
RunInit ==
  /\ res = "none"
  /\ error_mutex = None
  /\ run_result = "none"

\* no hit test in progress
HitInit ==
  /\ k_pc = "idle"
  /\ k_stim = 0

Windows == {"A", "B"}
MultiThreads == {"display", "experiment"}
NoCall == [op |-> "none", win |-> "none"]
NoResult == [op |-> "none", win |-> "none", outcome |-> "none"]

\* two open windows created by the same App, no operation in progress
MultiInit ==
  /\ w_open = [w \in Windows |-> TRUE]
  /\ poisoned = {}
  /\ m_pc = [t \in MultiThreads |-> "idle"]
  /\ m_op = [t \in MultiThreads |-> NoCall]
  /\ m_holds = [t \in MultiThreads |-> {}]
  /\ m_result = [t \in MultiThreads |-> NoResult]

TailInit == RunInit /\ HitInit /\ MultiInit /\ d_handlers = <<>>

RestInit ==
  DispInit /\ HandleInit /\ LoopInit /\ LutInit /\ ContainsInit /\ VideoInit /\ TailInit

ExtInit == SurfInit /\ RestInit

\* Window::get_frame: an empty Frame, then frame.set_bg_color(win_state.bg_color);
\* set_bg_color_arg is the argument of the last Frame::set_bg_color on the frame (the struct
\* has no field that keeps it)
NewFrame(c) == [stimuli |-> <<>>, event_handlers |-> <<>>, set_bg_color_arg |-> c]

\* App::create_window: the bookkeeping of a fresh window, no present call in progress
MainInit ==
  /\ dx12 \in BOOLEAN
  /\ state_open = TRUE
  /\ monitor_rate \in {Some(r) : r \in RefreshRates}
  /\ last_frame_id = 0
  /\ frame_queue = <<>>
  /\ frame_callbacks = <<>>
  /\ frame = NewFrame("grey")
  /\ pc = "idle"
  /\ args = [repeat_frames |-> None, repeat_time |-> None, pedantic |-> None]
  /\ refresh_rate = Rat(0, 1)
  /\ repeat_n = 0
  /\ i = 0
  /\ stim_idx = 0
  /\ new_frame_id = 0
  /\ surface_texture = None
  /\ scene = None
  /\ surface_size = None
  /\ scene_props = None
  /\ scenes_created = 0
  /\ onset_time = None
  /\ wait_timed_out = FALSE
  /\ result = "none"
  /\ log = <<>>
  /\ snap = Bookkeeping
  /\ assigned = <<>>

\* App::create_window: the WindowState of a fresh window
Init == MainInit /\ ExtInit

\* ------------------------------------------------------------ the Frame
\* Window::get_frame
GetFrame ==
  /\ Idle
  /\ ExpCanLock("state")
  /\ state_open
  /\ frame' = NewFrame(bg_color)
  /\ UNCHANGED <<ext_vars, win_vars, env_vars, call_vars, pc>>

\* Frame::add
FrameAdd(s) ==
  /\ Idle
  /\ Len(frame.stimuli) < MaxStimuli
  /\ frame' = [frame EXCEPT !.stimuli = Append(@, s)]
  /\ UNCHANGED <<ext_vars, win_vars, env_vars, call_vars, pc>>

\* Frame::add_event_handler: a free id, then insert
FrameAddEventHandler(id, kind) ==
  /\ Idle
  /\ id \notin DOMAIN frame.event_handlers
  /\ frame' = [frame EXCEPT !.event_handlers = (id :> kind) @@ @]
  /\ UNCHANGED <<ext_vars, win_vars, env_vars, call_vars, pc>>

\* ------------------------------------------------------------ the environment
\* the window moves to another monitor, or the monitor stops reporting a rate
MonitorChange(r) ==
  /\ Idle
  /\ monitor_rate # r
  /\ monitor_rate' = r
  /\ UNCHANGED <<ext_vars, dx12, win_vars, frame, call_vars, pc>>

\* Window::close
Close ==
  /\ Idle
  /\ ExpCanLock("state")
  /\ state_open
  /\ state_open' = FALSE
  /\ UNCHANGED <<ext_vars, last_frame_id, frame_queue, frame_callbacks, env_vars, frame, call_vars, pc>>

\* ------------------------------------------------------------ Window::present
RepeatFramesArgs == {None} \cup {Some(n) : n \in 0..MaxRepeat}
RepeatTimeArgs == {None} \cup {Some(Rat(tn, TimeDen)) : tn \in -1..MaxTimeNum}
PedanticArgs == {None, Some(TRUE), Some(FALSE)}
PresentArgs == [repeat_frames : RepeatFramesArgs, repeat_time : RepeatTimeArgs,
                pedantic : PedanticArgs]

\* the experiment thread calls present(frame, repeat_frames, repeat_time, repeat_update,
\* pedantic); the body of present never reads repeat_update
PresentCall(a, repeat_update) ==
  /\ Idle
  /\ Len(assigned) < MaxCalls
  /\ args' = a
  /\ pc' = "validate"
  /\ snap' = Bookkeeping
  /\ UNCHANGED <<ext_vars, win_vars, env_vars, frame, refresh_rate, repeat_n, i, stim_idx,
                 new_frame_id, surface_texture, scene, surface_size, scene_props,
                 scenes_created, onset_time, wait_timed_out, result, log, assigned>>

NoArgs == [repeat_frames |-> None, repeat_time |-> None, pedantic |-> None]

\* control is back in the caller: the locals of the call are gone
PresentReturn ==
  /\ pc \in {"returned", "panicked"}
  /\ pc' = "idle"
  /\ args' = NoArgs
  /\ refresh_rate' = Rat(0, 1)
  /\ repeat_n' = 0
  /\ i' = 0
  /\ stim_idx' = 0
  /\ new_frame_id' = 0
  /\ surface_texture' = None
  /\ scene' = None
  /\ surface_size' = None
  /\ scene_props' = None
  /\ scenes_created' = 0
  /\ onset_time' = None
  /\ wait_timed_out' = FALSE
  /\ result' = "none"
  /\ log' = <<>>
  /\ snap' = Bookkeeping
  /\ UNCHANGED <<ext_vars, win_vars, env_vars, frame, assigned>>

Return(r) ==
  /\ pc' = "returned"
  /\ result' = r

Panic ==
  /\ pc' = "panicked"
  /\ result' = "Panic"

\* what the steps before the present loop leave alone
pre_unchanged == <<win_vars, env_vars, frame, args, i, stim_idx, new_frame_id, surface_texture,
                   scene, surface_size, scene_props, scenes_created, onset_time, wait_timed_out, log, snap, assigned>>

\* mutant of PresentValidate: the check of the two repeat arguments is missing
PresentValidate_NoCheck ==
  /\ pc = "validate"
  /\ pc' = "refresh"
  /\ UNCHANGED <<ext_vars, pre_unchanged, refresh_rate, repeat_n, result>>

\* mutant of PresentValidate: the frame id is pushed before the arguments are checked
PresentValidate_AfterPush ==
  /\ pc = "validate"
  /\ IF IsSome(args.repeat_frames) /\ IsSome(args.repeat_time)
       THEN /\ Return("ParameterError")
            /\ frame_queue' = Append(frame_queue, last_frame_id + 1)
       ELSE pc' = "refresh" /\ UNCHANGED <<result, frame_queue>>
  /\ UNCHANGED <<ext_vars, state_open, last_frame_id, frame_callbacks, env_vars, frame, args, i,
                 stim_idx, new_frame_id, surface_texture, scene, surface_size, scene_props,
                 scenes_created, onset_time, wait_timed_out, log, snap, assigned, refresh_rate,
                 repeat_n>>

\* only one of repeat_frames or repeat_time may be set
PresentValidate ==
  /\ pc = "validate"
  /\ IF IsSome(args.repeat_frames) /\ IsSome(args.repeat_time)
       THEN Return("ParameterError")
       ELSE pc' = "refresh" /\ UNCHANGED result
  /\ UNCHANGED <<ext_vars, pre_unchanged, refresh_rate, repeat_n>>

\* Window::get_current_refresh_rate: millihertz as f64 / 1000.0
RefreshRateHz(mhz) == Rat(mhz, 1000)

\* self.get_current_refresh_rate().expect(..)
PresentGetRefreshRate ==
  /\ pc = "refresh"
  /\ ExpCanLock("state")
  /\ IF ~state_open \/ IsNone(monitor_rate)
       THEN Panic /\ UNCHANGED refresh_rate
       ELSE /\ refresh_rate' = RefreshRateHz(Unwrap(monitor_rate))
            /\ pc' = "lock1"
            /\ UNCHANGED result
  /\ UNCHANGED <<ext_vars, pre_unchanged, repeat_n>>

\* pedantic.unwrap_or(self.config.lock().unwrap().pedantic)
EffectivePedantic(a) == UnwrapOr(a.pedantic, ConfigPedantic)

\* f_repeat_frames
FRepeatFrames(a, rr) ==
  IF IsSome(a.repeat_time)
    THEN FDiv(Unwrap(a.repeat_time), FDiv(Rat(1, 1), rr))
    ELSE Rat(UnwrapOr(a.repeat_frames, 1), 1)

\* the condition of the pedantic check, as the code computes it
PedanticWholeNumber(f) == FGt(FAbs(FRound(f)), Tolerance)
PedanticRejects(a, f) == EffectivePedantic(a) /\ PedanticWholeNumber(FSub(f, f))

\* f_repeat_frames.round() as u32
ResolveRepeatFrames(f) == AsU32(FRound(f))

\* self.gpu_state.lock().unwrap(), then self.state.lock().unwrap(): the k-th of the two
PresentLock(k) ==
  /\ pc = (IF k = 1 THEN "lock1" ELSE "lock2")
  /\ ExpCanLock(PresentLockOrder[k])
  /\ pc' = (IF k = 1 THEN "lock2" ELSE "resolve")
  /\ UNCHANGED <<ext_vars, pre_unchanged, refresh_rate, repeat_n, result>>

\* win_state.as_mut().unwrap(), then resolve the number of iterations
PresentResolve ==
  /\ pc = "resolve"
  /\ LET f == FRepeatFrames(args, refresh_rate) IN
       IF ~state_open
         THEN Panic /\ UNCHANGED repeat_n
         ELSE IF PedanticRejects(args, f)
           THEN Return("ParameterError") /\ UNCHANGED repeat_n
           ELSE /\ repeat_n' = ResolveRepeatFrames(f)
                /\ pc' = "register"
                /\ UNCHANGED result
  /\ UNCHANGED <<ext_vars, pre_unchanged, refresh_rate>>

\* the ids of the frame's handlers of kind Onset
OnsetHandlers(fr) == {h \in DOMAIN fr.event_handlers : fr.event_handlers[h] = "Onset"}

\* mutant of NextFrameId: every call gets an id of its own
NextFrameId_PerCall(last) == last + 1 + Len(assigned)

\* win_state.last_frame_id + 1
NextFrameId(last) == last + 1

\* mutant of LoopHead: one iteration too many
LoopHead_Inclusive(k, n) == IF k <= n THEN "acquire" ELSE "finish"

\* for i in 0..repeat_frames: the position after the loop head is evaluated with i = k
LoopHead(k, n) == IF k < n THEN "acquire" ELSE "finish"

\* for stimulus in &frame.stimuli: the position after the head, at the k-th stimulus
StimuliHead(k, fr) == IF k <= Len(fr.stimuli) THEN "update" ELSE "rasterize"

\* push the frame id, collect the onset handlers, insert the callback
PresentRegister ==
  /\ pc = "register"
  /\ new_frame_id' = NextFrameId(last_frame_id)
  /\ frame_queue' = Append(frame_queue, new_frame_id')
  /\ frame_callbacks' = (new_frame_id' :> OnsetHandlers(frame)) @@ frame_callbacks
  /\ assigned' = Append(assigned, new_frame_id')
  /\ i' = 0
  /\ pc' = LoopHead(0, repeat_n)
  /\ UNCHANGED <<ext_vars, state_open, last_frame_id, env_vars, frame, args, refresh_rate, repeat_n,
                 stim_idx, surface_texture, scene, surface_size, scene_props, scenes_created,
                 onset_time, wait_timed_out, result, log, snap>>

\* what the steps of the loop body leave alone
loop_unchanged == <<state_open, last_frame_id, env_vars, frame, args, refresh_rate, repeat_n,
                    new_frame_id, scenes_created, result, snap, assigned>>
book_unchanged == <<frame_queue, frame_callbacks, onset_time>>
iter_unchanged == <<i, surface_texture, scene, surface_size, scene_props>>

\* win_state.surface.get_current_texture()
PresentAcquire ==
  /\ pc = "acquire"
  /\ surface_texture' = Some(i)
  /\ surface_size' = Some(surface_config)
  /\ log' = Emit("acquire", 0, {})
  /\ pc' = "create_scene"
  /\ UNCHANGED <<ext_vars, win_vars, env_vars, frame, args, refresh_rate, repeat_n, i, stim_idx,
                 new_frame_id, scene, scene_props, scenes_created, onset_time, wait_timed_out, result,
                 snap, assigned>>

\* SkiaScene::new(width, height): the recording canvas is cleared to white
SkiaSceneNew(width, height) == [width |-> width, height |-> height, bg_color |-> "white"]

\* mutant of PresentCreateScene: the Scene of the first iteration is kept and reused
PresentCreateScene_Reuse ==
  /\ pc = "create_scene"
  /\ scenes_created' = IF scenes_created = 0 THEN 1 ELSE scenes_created
  /\ scene' = Some(scenes_created')
  /\ scene_props' = Some(SkiaSceneNew(Unwrap(surface_size).width, Unwrap(surface_size).height))
  /\ log' = Append(log, Ev("create_scene", i, scenes_created', 0, {}))
  /\ stim_idx' = 1
  /\ pc' = StimuliHead(1, frame)
  /\ UNCHANGED <<ext_vars, win_vars, env_vars, frame, args, refresh_rate, repeat_n, i, new_frame_id,
                 surface_texture, surface_size, onset_time, wait_timed_out, result, snap, assigned>>

\* win_state.renderer.create_scene(width, height)
PresentCreateScene ==
  /\ pc = "create_scene"
  /\ scenes_created' = scenes_created + 1
  /\ scene' = Some(scenes_created')
  /\ scene_props' = Some(SkiaSceneNew(Unwrap(surface_size).width, Unwrap(surface_size).height))
  /\ log' = Append(log, Ev("create_scene", i, scenes_created', 0, {}))
  /\ stim_idx' = 1
  /\ pc' = StimuliHead(1, frame)
  /\ UNCHANGED <<ext_vars, win_vars, env_vars, frame, args, refresh_rate, repeat_n, i, new_frame_id,
                 surface_texture, surface_size, onset_time, wait_timed_out, result, snap, assigned>>

\* the stimulus locks held by the thread in contains
HitHolds == IF k_pc = "contains" THEN {k_stim} ELSE {}

\* the guard of (&stimulus).lock() lives from line 299 to the end of the loop body
ExpHoldsStimulus == IF pc = "draw" THEN {frame.stimuli[stim_idx]} ELSE {}

\* (&stimulus).lock(), then stimulus.update_animations(now, &win_state)
PresentUpdateAnimations ==
  /\ pc = "update"
  /\ frame.stimuli[stim_idx] \notin HitHolds
  /\ log' = Emit("update_animations", frame.stimuli[stim_idx], {})
  /\ pc' = "draw"
  /\ UNCHANGED <<ext_vars, loop_unchanged, book_unchanged, iter_unchanged, stim_idx, wait_timed_out>>

\* stimulus.draw(&mut scene, &win_state)
PresentDraw ==
  /\ pc = "draw"
  /\ log' = Emit("draw", frame.stimuli[stim_idx], {})
  /\ stim_idx' = stim_idx + 1
  /\ pc' = StimuliHead(stim_idx + 1, frame)
  /\ UNCHANGED <<ext_vars, loop_unchanged, book_unchanged, iter_unchanged, wait_timed_out>>

\* win_state.renderer.render_to_texture(device, queue, texture, width, height, &mut scene)
PresentRasterize ==
  /\ pc = "rasterize"
  /\ log' = Emit("rasterize", 0, {})
  /\ pc' = "composite"
  /\ UNCHANGED <<ext_vars, loop_unchanged, book_unchanged, iter_unchanged, stim_idx, wait_timed_out>>

\* win_state.wgpu_renderer.render_to_texture(device, queue, &surface_texture_view)
PresentComposite ==
  /\ pc = "composite"
  /\ log' = Emit("composite", 0, {})
  /\ pc' = "present"
  /\ UNCHANGED <<ext_vars, loop_unchanged, book_unchanged, iter_unchanged, stim_idx, wait_timed_out>>

\* the end of the loop body: the Scene and the surface texture are dropped
EndIteration ==
  /\ i' = i + 1
  /\ scene' = None
  /\ surface_texture' = None
  /\ surface_size' = None
  /\ scene_props' = None
  /\ pc' = LoopHead(i + 1, repeat_n)

\* suface_texture.present()
PresentSurface ==
  /\ pc = "present"
  /\ log' = Emit("present", 0, {})
  /\ IF dx12
       THEN pc' = "wait" /\ UNCHANGED iter_unchanged
       ELSE EndIteration
  /\ UNCHANGED <<ext_vars, loop_unchanged, book_unchanged, stim_idx, wait_timed_out>>

\* dx12: WaitForSingleObject(waitable_handle, 10000); the returned status is dropped
PresentWait(timed_out) ==
  /\ pc = "wait"
  /\ log' = Emit("wait", 0, {})
  /\ wait_timed_out' = (wait_timed_out \/ timed_out)
  /\ IF i = 0
       THEN pc' = "onset" /\ UNCHANGED iter_unchanged
       ELSE EndIteration
  /\ UNCHANGED <<ext_vars, loop_unchanged, book_unchanged, stim_idx>>

\* HashMap::remove
MapRemove(m, k) == [x \in (DOMAIN m) \ {k} |-> m[x]]

\* dx12, i == 0: timestamp, take the front of the frame queue, remove and call its callback
PresentOnset ==
  /\ pc = "onset"
  /\ onset_time' = Some(Now + 1)
  /\ LET frame_id == Head(frame_queue) IN
       /\ frame_queue' = Tail(frame_queue)
       /\ frame_callbacks' = MapRemove(frame_callbacks, frame_id)
       /\ log' = Append(Emit("timestamp", 0, {}),
                        Ev("callback", i, UnwrapOr(scene, 0), frame_id, frame_callbacks[frame_id]))
  /\ EndIteration
  /\ UNCHANGED <<ext_vars, loop_unchanged, stim_idx, wait_timed_out>>

\* mutant of PresentFinish: the timestamp is always taken when the loop is over
PresentFinish_AlwaysNow ==
  /\ pc = "finish"
  /\ onset_time' = Some(Now + 1)
  /\ log' = Emit("timestamp", 0, {})
  /\ Return("Ok")
  /\ UNCHANGED <<ext_vars, win_vars, env_vars, frame, args, refresh_rate, repeat_n, i, stim_idx,
                 new_frame_id, surface_texture, scene, surface_size, scene_props, scenes_created,
                 wait_timed_out, snap, assigned>>

\* if the onset time is None, set it to the current time; Ok(*onset_time)
PresentFinish ==
  /\ pc = "finish"
  /\ IF IsNone(onset_time)
       THEN onset_time' = Some(Now + 1) /\ log' = Emit("timestamp", 0, {})
       ELSE UNCHANGED <<onset_time, log>>
  /\ Return("Ok")
  /\ UNCHANGED <<ext_vars, win_vars, env_vars, frame, args, refresh_rate, repeat_n, i, stim_idx,
                 new_frame_id, surface_texture, scene, surface_size, scene_props, scenes_created,
                 wait_timed_out, snap, assigned>>

Next ==
  \/ GetFrame
  \/ \E s \in Stimuli : FrameAdd(s)
  \/ \E id \in HandlerIds, kind \in EventKinds : FrameAddEventHandler(id, kind)
  \/ \E r \in {None} \cup {Some(x) : x \in RefreshRates} : MonitorChange(r)
  \/ Close
  \/ \E a \in PresentArgs, repeat_update \in BOOLEAN : PresentCall(a, repeat_update)
  \/ PresentValidate
  \/ PresentGetRefreshRate
  \/ \E k \in 1..2 : PresentLock(k)
  \/ PresentResolve
  \/ PresentRegister
  \/ PresentAcquire
  \/ PresentCreateScene
  \/ PresentUpdateAnimations
  \/ PresentDraw
  \/ PresentRasterize
  \/ PresentComposite
  \/ PresentSurface
  \/ \E timed_out \in BOOLEAN : PresentWait(timed_out)
  \/ PresentOnset
  \/ PresentFinish
  \/ PresentReturn

Spec == Init /\ [][Next]_vars

\* ------------------------------------------------------------ observations
\* the number of steps `op` the call in progress has performed
Count(op) == Cardinality({k \in 1..Len(log) : log[k].op = op})
\* the positions of the steps `op` of iteration `it`
Positions(op, it) == {k \in 1..Len(log) : log[k].op = op /\ log[k].i = it}
IsIterationStep(e) ==
  e.op \in {"acquire", "create_scene", "update_animations", "draw", "rasterize",
            "composite", "present"}
IterationSteps == SelectSeq(log, IsIterationStep)
\* the number of times the call in progress has invoked handler h
Fired(h) == Cardinality({k \in 1..Len(log) : log[k].op = "callback" /\ h \in log[k].handlers})
Returned == pc = "returned"

\* C1: present with repeat_frames = Some(n) and no repeat_time returns Ok after exactly
\* n acquire/draw/compositor/present iterations, one after another (the k-th acquire
\* follows the (k-1)-th present); with neither argument it performs exactly 1
\* iteration and returns a non-None onset timestamp.
C1_RepeatFramesIterations ==
  (Returned /\ IsNone(args.repeat_time)) =>
    LET n == UnwrapOr(args.repeat_frames, 1) IN
      /\ result = "Ok"
      /\ IsSome(onset_time)
      /\ Count("acquire") = n /\ Count("rasterize") = n
      /\ Count("composite") = n /\ Count("present") = n
      /\ \A k \in 0..(n - 1) :
           /\ Cardinality(Positions("acquire", k)) = 1
           /\ Cardinality(Positions("present", k)) = 1
           /\ \A a \in Positions("acquire", k), q \in Positions("present", k) :
                /\ a < q
                /\ \A b \in Positions("acquire", k + 1) : q < b
C1_Witness ==
  /\ Returned /\ result = "Ok"
  /\ args.repeat_frames = Some(2) /\ IsNone(args.repeat_time)
  /\ Count("present") = 2

\* C2: a present call with both repeat_frames and repeat_time set returns a
\* ParameterError, whatever pedantic is and whether the window is open or closed, and
\* takes no other step.
C2_BothSetIsParameterError ==
  (IsSome(args.repeat_frames) /\ IsSome(args.repeat_time) /\ pc # "validate") =>
    (Returned /\ result = "ParameterError")
C2_Witness ==
  /\ Returned /\ result = "ParameterError"
  /\ IsSome(args.repeat_frames) /\ IsSome(args.repeat_time)
  /\ args.pedantic = Some(FALSE)
  /\ ~state_open

\* f is further than the tolerance from the nearest integer
NotWholeNumber(f) == FGt(FAbs(FSub(f, FRound(f))), Tolerance)
\* t / (1 / r) of the call in progress, once the refresh rate is known
FractionalFrames == FDiv(Unwrap(args.repeat_time), FDiv(Rat(1, 1), refresh_rate))

\* C3: with repeat_time = t > 0, effective pedantic = true and t / (1/r) further than
\* 1e-4 from an integer, present returns a ParameterError before acquiring a swapchain
\* texture.
C3_PedanticRejectsFraction ==
  (/\ IsSome(args.repeat_time) /\ IsNone(args.repeat_frames)
   /\ EffectivePedantic(args)
   /\ Unwrap(args.repeat_time).num > 0
   /\ pc \notin {"idle", "validate", "refresh", "resolve", "panicked"}
   /\ NotWholeNumber(FractionalFrames)) =>
    (Returned /\ result = "ParameterError" /\ Count("acquire") = 0)

\* the integer nearest to the non-negative rational q, the larger one at a tie
NearestInteger(q) ==
  CHOOSE k \in 0..(q.num + 1) :
    /\ 2 * (k * q.den - q.num) <= q.den
    /\ 2 * (q.num - k * q.den) < q.den
FMul(a, b) == Rat(a.num * b.num, a.den * b.den)

\* C4: with a non-negative repeat_time = t and pedantic = false, present returns Ok and
\* performs exactly round(t * r) iterations, also when t * r is no whole number.
C4_NonPedanticRounds ==
  (/\ Returned
   /\ IsSome(args.repeat_time) /\ IsNone(args.repeat_frames)
   /\ args.pedantic = Some(FALSE)
   /\ Unwrap(args.repeat_time).num >= 0) =>
    /\ result = "Ok"
    /\ Count("present") = NearestInteger(FMul(Unwrap(args.repeat_time), refresh_rate))
    /\ Count("acquire") = Count("present")
C4_Witness ==
  /\ Returned /\ result = "Ok"
  /\ args.pedantic = Some(FALSE)
  /\ args.repeat_time = Some(Rat(3, TimeDen)) /\ IsNone(args.repeat_frames)
  /\ refresh_rate = Rat(60, 1)
  /\ Count("present") = 1

\* C5: a present call that returns a ParameterError has acquired no swapchain texture,
\* has run no step of an iteration, and leaves last_frame_id, frame_queue and
\* frame_callbacks as they were when it was called.
C5_ParameterErrorNoEffect ==
  (Returned /\ result = "ParameterError") =>
    /\ log = <<>>
    /\ IsNone(surface_texture) /\ IsNone(scene)
    /\ Bookkeeping = snap
C5_Witness ==
  /\ Returned /\ result = "ParameterError"
  /\ frame_queue # <<>>
  /\ DOMAIN frame_callbacks # {}

\* C6: the k-th present on a window that is assigned a frame id is assigned k.
C6_FrameIdsIncrease ==
  \A k \in 1..Len(assigned) : assigned[k] = k

\* the step of iteration it at offset o of the iteration, as the frame fr orders it
ExpectedStep(fr, it, o) ==
  LET ns == Len(fr.stimuli) IN
    IF o = 0 THEN Ev("acquire", it, 0, 0, {})
    ELSE IF o = 1 THEN Ev("create_scene", it, it + 1, 0, {})
    ELSE IF o < 2 + 2 * ns
      THEN Ev(IF o % 2 = 0 THEN "update_animations" ELSE "draw", it, it + 1,
              fr.stimuli[((o - 2) \div 2) + 1], {})
    ELSE IF o = 2 + 2 * ns THEN Ev("rasterize", it, it + 1, 0, {})
    ELSE IF o = 3 + 2 * ns THEN Ev("composite", it, it + 1, 0, {})
    ELSE Ev("present", it, it + 1, 0, {})
StepsPerIteration(fr) == 5 + 2 * Len(fr.stimuli)

\* C7: the steps of the iterations of a present call are, in this order: acquire the
\* swapchain texture, create a Scene, for each stimulus in insertion order update its
\* animations and then draw it into that Scene, rasterize that Scene once, run the
\* compositor pass, present; iteration i+1 starts after iteration i has presented and
\* the Scene of iteration i is the (i+1)-th Scene created, used in no other iteration.
C7_IterationOrder ==
  \A p \in 1..Len(IterationSteps) :
    IterationSteps[p] = ExpectedStep(frame, (p - 1) \div StepsPerIteration(frame),
                                     (p - 1) % StepsPerIteration(frame))
C7_Witness ==
  /\ Returned /\ result = "Ok"
  /\ Len(frame.stimuli) = 2 /\ frame.stimuli[1] # frame.stimuli[2]
  /\ Count("present") = 2
  /\ Len(IterationSteps) = 2 * StepsPerIteration(frame)

\* C8: when a present call that presented at least once returns Ok, each Onset handler
\* of the presented frame has been invoked exactly once, on dx12 and elsewhere.
C8_OnsetHandlersFired ==
  (Returned /\ result = "Ok" /\ Count("present") >= 1) => \A h \in OnsetHandlers(frame) : Fired(h) = 1

\* C9: on dx12, for a present call that runs at least one iteration, the onset
\* timestamp is taken and the onset callback of the frame is called after the wait that
\* follows the first iteration's present and before the second iteration acquires its
\* swapchain texture, once each; present returns that timestamp.
C9_OnsetAfterFirstWait ==
  (dx12 /\ Returned /\ result = "Ok" /\ repeat_n >= 1) =>
    /\ Count("timestamp") = 1 /\ Count("callback") = 1
    /\ \A ts \in Positions("timestamp", 0), cb \in Positions("callback", 0) :
         /\ onset_time = Some(ts)
         /\ \A q \in Positions("present", 0), w \in Positions("wait", 0) :
              q < w /\ w < ts /\ w < cb
         /\ \A a \in Positions("acquire", 1) : ts < a /\ cb < a
         /\ log[cb].handlers = OnsetHandlers(frame)
C9_Witness ==
  /\ dx12 /\ Returned /\ result = "Ok"
  /\ repeat_n = 2
  /\ OnsetHandlers(frame) # {}
  /\ Positions("acquire", 1) # {}
  /\ Positions("timestamp", 0) # {}

\* C10: once a present-latency wait of a call has timed out, the call takes no onset
\* timestamp, calls no onset callback, starts no further iteration and does not
\* return Ok.
C10_WaitTimeoutIsFatal ==
  wait_timed_out =>
    /\ pc \notin {"onset", "acquire", "finish"}
    /\ ~(Returned /\ result = "Ok")

\* ------------------------------------------------------------ the display thread

\* from the first get_current_texture to the last present (and its wait) of a call
InFlightPcs == {"acquire", "create_scene", "update", "draw", "rasterize", "composite",
                "present", "wait", "onset"}

\* Mutex::lock by the display thread returns once no other thread holds the guard
DisplayCanLock(l) == l \notin ExpHolds \cup VideoHolds

\* mutant of ResizeLockOrder: Window::resize locks the window state first
ResizeLockOrder_Reversed == <<"state", "gpu">>

\* Window::resize locks the gpu state, then the window state
ResizeLockOrder == <<"gpu", "state">>

\* mutant of WindowEventResized: the handler resizes the WindowState without the locks
WindowEventResized_NoLock(s) ==
  /\ d_pc = "idle"
  /\ d_pc' = "resize_apply"
  /\ d_size' = PixelSize(s)
  /\ d_during' = IF pc \in InFlightPcs THEN Len(assigned) ELSE 0
  /\ UNCHANGED <<surf_vars, mouse_position, d_holds, last_resize, main_vars, more_vars>>

\* App::window_event, WindowEvent::Resized(size): window.resize(size) begins
WindowEventResized(s) ==
  /\ d_pc = "idle"
  /\ d_pc' = "resize_lock1"
  /\ d_size' = PixelSize(s)
  /\ d_during' = IF pc \in InFlightPcs THEN Len(assigned) ELSE 0
  /\ UNCHANGED <<surf_vars, mouse_position, d_holds, last_resize, main_vars, more_vars>>

\* Window::resize: the k-th of its two lock().unwrap()
WindowResizeLock(k) ==
  /\ d_pc = (IF k = 1 THEN "resize_lock1" ELSE "resize_lock2")
  /\ DisplayCanLock(ResizeLockOrder[k])
  /\ d_holds' = d_holds \cup {ResizeLockOrder[k]}
  /\ d_pc' = (IF k = 1 THEN "resize_lock2" ELSE "resize_apply")
  /\ UNCHANGED <<surf_vars, mouse_position, d_size, d_during, last_resize, main_vars, more_vars>>

\* mutant of WgpuRendererResize: the bind group keeps the texture it was created with
WgpuRendererResize_StaleBindGroup(r, width, height) ==
  [texture |-> [width |-> width, height |-> height], bind_group |-> r.bind_group]

\* WgpuRenderer::resize: a new texture of width by height, and a new bind group on it
WgpuRendererResize(r, width, height) ==
  LET t == [width |-> width, height |-> height] IN
    [texture |-> t, bind_group |-> [texture |-> t]]

\* win_state.as_mut().unwrap(), then WindowState::resize; the guards drop on return
WindowResize ==
  /\ d_pc = "resize_apply"
  /\ IF ~state_open
       THEN d_pc' = "panicked" /\ UNCHANGED <<surf_vars, last_resize>>
       ELSE /\ size' = d_size
            /\ surface_config' = [width |-> d_size.width, height |-> d_size.height]
            /\ LET r == WgpuRendererResize([texture |-> texture, bind_group |-> bind_group],
                                           d_size.width, d_size.height) IN
                 texture' = r.texture /\ bind_group' = r.bind_group
            /\ last_resize' = Some(d_size)
            /\ d_pc' = "idle"
  /\ d_holds' = {}
  /\ UNCHANGED <<mouse_position, d_size, d_during, main_vars, more_vars>>

\* cursor positions reported by CursorMoved events
CursorPositions == {<<400, 300>>}

\* App::window_event, WindowEvent::CursorMoved: window.state.lock().unwrap()
WindowEventCursorMoved ==
  /\ d_pc = "idle"
  /\ DisplayCanLock("state")
  /\ d_holds' = {"state"}
  /\ d_pc' = "cursor_apply"
  /\ UNCHANGED <<surf_vars, mouse_position, d_size, d_during, last_resize, main_vars, more_vars>>

\* window_state.as_mut().unwrap(); the position shifted by half the window size
WindowCursorMoved(position) ==
  /\ d_pc = "cursor_apply"
  /\ IF ~state_open
       THEN d_pc' = "panicked" /\ UNCHANGED mouse_position
       ELSE /\ mouse_position' = Some(<<position[1] - size.width \div 2,
                                        position[2] - size.height \div 2>>)
            /\ d_pc' = "dispatch"
  /\ d_holds' = {}
  /\ UNCHANGED <<surf_vars, d_size, d_during, last_resize, main_vars, more_vars>>

\* Window::dispatch_event: the handlers are cloned under the state lock, the lock is
\* released, then the handlers run
WindowDispatchEvent ==
  /\ d_pc = "dispatch"
  /\ DisplayCanLock("state")
  /\ d_pc' = IF state_open THEN "idle" ELSE "panicked"
  /\ UNCHANGED <<surf_vars, mouse_position, d_size, d_holds, d_during, last_resize, main_vars, more_vars>>

\* present calls of the experiment thread while the display thread handles events
WindowPresentArgs ==
  {[repeat_frames |-> Some(n), repeat_time |-> None, pedantic |-> None] : n \in 1..MaxRepeat}

NextWindow ==
  \/ Close
  \/ \E a \in WindowPresentArgs, repeat_update \in BOOLEAN : PresentCall(a, repeat_update)
  \/ PresentValidate
  \/ PresentGetRefreshRate
  \/ \E k \in 1..2 : PresentLock(k)
  \/ PresentResolve
  \/ PresentRegister
  \/ PresentAcquire
  \/ PresentCreateScene
  \/ PresentRasterize
  \/ PresentComposite
  \/ PresentSurface
  \/ \E timed_out \in BOOLEAN : PresentWait(timed_out)
  \/ PresentOnset
  \/ PresentFinish
  \/ PresentReturn
  \/ \E s \in PixelSizes : WindowEventResized(s)
  \/ \E k \in 1..2 : WindowResizeLock(k)
  \/ WindowResize
  \/ WindowEventCursorMoved
  \/ \E position \in CursorPositions : WindowCursorMoved(position)
  \/ WindowDispatchEvent

SpecWindow == Init /\ [][NextWindow]_vars

\* C11: a resize from the display thread and a present from the experiment thread never
\* interleave: while a present call is between its first swapchain acquire and its last
\* present, no step changes the window size, the surface configuration, the intermediate
\* texture or its bind group, and a resize whose event arrived during present call number c
\* is applied only when call c no longer holds the locks (it has returned).
C11_ResizeNeverInterleavesPresent ==
  [][/\ (pc \in InFlightPcs => UNCHANGED surf_vars)
     /\ ((d_pc = "resize_apply" /\ d_pc' # d_pc /\ d_during > 0)
           => ~(pc \in HoldingPcs /\ Len(assigned) = d_during))]_vars

\* a Resized event with a new size arrived during a present call, and has taken effect
C11_Witness ==
  /\ d_during > 0
  /\ d_pc = "idle"
  /\ last_resize = Some(d_size)
  /\ size = d_size
  /\ size # PixelSize(InitialSize)

\* C12: after Window::resize((W,H)) has returned, window.size() is (W,H), the surface is
\* configured W by H, and the intermediate texture and the texture bound in the
\* compositor's bind group are W by H.
C12_ResizeSetsAllSizes ==
  IsSome(last_resize) =>
    LET wh == Unwrap(last_resize) IN
      /\ size = wh
      /\ surface_config = [width |-> wh.width, height |-> wh.height]
      /\ texture = [width |-> wh.width, height |-> wh.height]
      /\ bind_group.texture = [width |-> wh.width, height |-> wh.height]

\* a resize to a size other than the initial one has returned, no present has begun since
C12_Witness ==
  /\ IsSome(last_resize)
  /\ Unwrap(last_resize) # PixelSize(InitialSize)
  /\ d_pc = "idle"
  /\ pc = "idle"

\* the lock a thread is blocked on, if it is at a lock() call
ExpWaitsFor ==
  IF pc = "refresh" THEN {"state"}
  ELSE IF pc = "lock1" THEN {PresentLockOrder[1]}
  ELSE IF pc = "lock2" THEN {PresentLockOrder[2]}
  ELSE {}
DisplayWaitsFor ==
  IF d_pc = "resize_lock1" THEN {ResizeLockOrder[1]}
  ELSE IF d_pc = "resize_lock2" THEN {ResizeLockOrder[2]}
  ELSE IF d_pc = "dispatch" THEN {"state"}
  ELSE {}
\* each thread waits for a lock the other holds
Deadlocked ==
  /\ ExpWaitsFor \cap d_holds # {}
  /\ DisplayWaitsFor \cap ExpHolds # {}

\* C14: a thread that holds the window-state lock never waits for the GPU-state lock (both
\* locks are always taken GPU state first), the two threads never hold the same lock, and
\* the experiment thread in present and the display thread in resize or in an input-event
\* handler are never each waiting for a lock the other holds.
C14_LockOrderNoDeadlock ==
  /\ ("state" \in ExpHolds => "gpu" \notin ExpWaitsFor)
  /\ ("state" \in d_holds => "gpu" \notin DisplayWaitsFor)
  /\ ExpHolds \cap d_holds = {}
  /\ ~Deadlocked

\* present holds the gpu lock and waits for the state lock, which the display thread
\* holds in its CursorMoved handler
C14_Witness ==
  /\ pc = "lock2"
  /\ d_pc = "cursor_apply"
  /\ d_holds = {"state"}

\* ------------------------------------------------------------ calls on the Window handle
\* every accessor begins with self.state.lock().unwrap() on the calling thread
StateLock == Idle /\ ExpCanLock("state")

\* mutant of StateUnwrapPanics: the accessor goes on with the state it finds
StateUnwrapPanics_Never == FALSE

\* win_state.as_ref().unwrap() / as_mut().unwrap() panics when the state is None
StateUnwrapPanics == ~state_open

BoolStr(b) == IF b THEN "true" ELSE "false"

OpDone(op, value) ==
  /\ pc' = "op_returned"
  /\ op_result' = [op |-> op, outcome |-> "Ok", value |-> value]
OpPanic(op) ==
  /\ pc' = "op_panicked"
  /\ op_result' = [op |-> op, outcome |-> "Panic", value |-> "()"]

\* what a call on the handle leaves alone besides the fields it names
op_unchanged == <<surf_vars, disp_vars, win_vars, env_vars, call_vars, loop_vars, lut_vars,
                  contains_vars, video_vars, tail_vars>>

\* Window::size
WindowSize ==
  /\ StateLock
  /\ IF StateUnwrapPanics THEN OpPanic("size") ELSE OpDone("size", "()")
  /\ UNCHANGED <<op_unchanged, frame, mouse_cursor_visible, os_cursor_visible, bg_color,
                 event_handlers>>

\* Window::mouse_position
WindowMousePosition ==
  /\ StateLock
  /\ IF StateUnwrapPanics THEN OpPanic("mouse_position") ELSE OpDone("mouse_position", "()")
  /\ UNCHANGED <<op_unchanged, frame, mouse_cursor_visible, os_cursor_visible, bg_color,
                 event_handlers>>

\* Window::get_frame on a window that may be closed
WindowGetFrame ==
  /\ StateLock
  /\ IF StateUnwrapPanics
       THEN OpPanic("get_frame") /\ UNCHANGED frame
       ELSE OpDone("get_frame", "()") /\ frame' = NewFrame(bg_color)
  /\ UNCHANGED <<op_unchanged, mouse_cursor_visible, os_cursor_visible, bg_color,
                 event_handlers>>

\* Window::set_cursor_visible(visible): the field takes visible, the winit window is
\* given false
WindowSetCursorVisible(visible) ==
  /\ StateLock
  /\ IF StateUnwrapPanics
       THEN OpPanic("set_cursor_visible") /\ UNCHANGED <<mouse_cursor_visible, os_cursor_visible>>
       ELSE /\ OpDone("set_cursor_visible", "()")
            /\ mouse_cursor_visible' = visible
            /\ os_cursor_visible' = FALSE
  /\ UNCHANGED <<op_unchanged, frame, bg_color, event_handlers>>

\* Window::cursor_visible
WindowCursorVisible ==
  /\ StateLock
  /\ IF StateUnwrapPanics
       THEN OpPanic("cursor_visible")
       ELSE OpDone("cursor_visible", BoolStr(mouse_cursor_visible))
  /\ UNCHANGED <<op_unchanged, frame, mouse_cursor_visible, os_cursor_visible, bg_color,
                 event_handlers>>

\* Window::py_get_bg_color
WindowGetBgColor ==
  /\ StateLock
  /\ IF StateUnwrapPanics THEN OpPanic("bg_color") ELSE OpDone("bg_color", bg_color)
  /\ UNCHANGED <<op_unchanged, frame, mouse_cursor_visible, os_cursor_visible, bg_color,
                 event_handlers>>

\* Window::py_set_bg_color
WindowSetBgColor(c) ==
  /\ StateLock
  /\ IF StateUnwrapPanics
       THEN OpPanic("set_bg_color") /\ UNCHANGED bg_color
       ELSE OpDone("set_bg_color", "()") /\ bg_color' = c
  /\ UNCHANGED <<op_unchanged, frame, mouse_cursor_visible, os_cursor_visible, event_handlers>>

\* Window::add_event_handler: a random id not in use, then insert
WindowAddEventHandler(id, kind) ==
  /\ StateLock
  /\ IF StateUnwrapPanics
       THEN OpPanic("add_event_handler") /\ UNCHANGED event_handlers
       ELSE /\ id \notin DOMAIN event_handlers
            /\ OpDone("add_event_handler", "()")
            /\ event_handlers' = (id :> kind) @@ event_handlers
  /\ UNCHANGED <<op_unchanged, frame, mouse_cursor_visible, os_cursor_visible, bg_color>>

\* Window::remove_event_handler
WindowRemoveEventHandler(id) ==
  /\ StateLock
  /\ IF StateUnwrapPanics
       THEN OpPanic("remove_event_handler") /\ UNCHANGED event_handlers
       ELSE /\ OpDone("remove_event_handler", "()")
            /\ event_handlers' = [x \in (DOMAIN event_handlers) \ {id} |-> event_handlers[x]]
  /\ UNCHANGED <<op_unchanged, frame, mouse_cursor_visible, os_cursor_visible, bg_color>>

\* control is back in the caller of the accessor
WindowOpReturn ==
  /\ pc \in {"op_returned", "op_panicked"}
  /\ pc' = "idle"
  /\ op_result' = NoOp
  /\ UNCHANGED <<op_unchanged, frame, mouse_cursor_visible, os_cursor_visible, bg_color,
                 event_handlers>>

\* present calls of the experiment thread between its calls on the handle
HandlePresentArgs ==
  {[repeat_frames |-> Some(1), repeat_time |-> rt, pedantic |-> None] :
     rt \in {None, Some(Rat(1, TimeDen))}}

NextHandle ==
  \/ Close
  \/ WindowSize
  \/ WindowMousePosition
  \/ WindowGetFrame
  \/ \E visible \in BOOLEAN : WindowSetCursorVisible(visible)
  \/ WindowCursorVisible
  \/ WindowGetBgColor
  \/ \E c \in Colors : WindowSetBgColor(c)
  \/ \E id \in HandlerIds, kind \in EventKinds : WindowAddEventHandler(id, kind)
  \/ \E id \in HandlerIds : WindowRemoveEventHandler(id)
  \/ WindowOpReturn
  \/ \E a \in HandlePresentArgs, repeat_update \in BOOLEAN : PresentCall(a, repeat_update)
  \/ PresentValidate
  \/ PresentGetRefreshRate
  \/ \E k \in 1..2 : PresentLock(k)
  \/ PresentResolve
  \/ PresentRegister
  \/ PresentAcquire
  \/ PresentCreateScene
  \/ PresentRasterize
  \/ PresentComposite
  \/ PresentSurface
  \/ \E timed_out \in BOOLEAN : PresentWait(timed_out)
  \/ PresentOnset
  \/ PresentFinish
  \/ PresentReturn
  \/ \E s \in PixelSizes : WindowEventResized(s)
  \/ \E k \in 1..2 : WindowResizeLock(k)
  \/ WindowResize
  \/ WindowEventCursorMoved
  \/ \E position \in CursorPositions : WindowCursorMoved(position)
  \/ WindowDispatchEvent

SpecHandle == Init /\ [][NextHandle]_vars

\* the fields of the WindowState that Window::close drops
state_fields == <<surf_vars, mouse_position, last_resize, last_frame_id, frame_queue,
                  frame_callbacks, mouse_cursor_visible, os_cursor_visible, bg_color,
                  event_handlers>>

\* C13: after Window::close, no step of any operation on the handle changes a field of the
\* torn-down state, no accessor (size, get_frame, cursor and background-color getters and
\* setters, adding and removing event handlers) returns normally, a present that returns
\* returns a ParameterError, and a resize, a cursor update or a dispatch_event of the
\* display thread ends in a panic.
C13_ClosedWindowOpsFail ==
  [][~state_open =>
       /\ UNCHANGED state_fields
       /\ pc' # "op_returned"
       /\ ((pc' = "returned" /\ pc # "returned") => result' = "ParameterError")
       /\ ((d_pc \in {"resize_apply", "cursor_apply", "dispatch"} /\ d_pc' # d_pc)
             => d_pc' = "panicked")]_vars

\* set_cursor_visible was called on a closed window and panicked
C13_Witness ==
  /\ ~state_open
  /\ pc = "op_panicked"
  /\ op_result.op = "set_cursor_visible"

\* C18: the cursor visibility given to the OS window is the value of the last
\* set_cursor_visible(v), and cursor_visible() returns the visibility of the cursor in
\* the window.
C18_CursorVisibleMatchesOs ==
  /\ mouse_cursor_visible = os_cursor_visible
  /\ (op_result.op = "cursor_visible" /\ op_result.outcome = "Ok")
       => op_result.value = BoolStr(os_cursor_visible)

\* ------------------------------------------------------------ the event loop
not_loop_vars == <<surf_vars, disp_vars, handle_vars, main_vars, lut_vars, contains_vars,
                   video_vars, tail_vars>>

\* WindowOptions: Windowed has no monitor field, the fullscreen variants have an
\* Option<Monitor>
FullscreenVariants == {"FullscreenExact", "FullscreenHighestRefreshRate",
                       "FullscreenHighestResolution"}
NoOptions == [variant |-> "none", monitor |-> None]
WindowOptionsSet ==
  {[variant |-> "Windowed", monitor |-> None]}
    \cup [variant : FullscreenVariants, monitor : {None, Some(1)}]

\* WindowOptions::monitor
OptionsMonitor(o) == IF o.variant = "Windowed" THEN None ELSE o.monitor

Action(kind, from, options) == [kind |-> kind, from |-> from, options |-> options]
RequestKinds == {"CreateNewWindow", "GetAvailableMonitors"}
RequestOptions(kind) == IF kind = "CreateNewWindow" THEN WindowOptionsSet ELSE {NoOptions}

\* ExperimentContext::create_window / get_available_monitors: self.action_sender.send(..)
\* (thread 1 runs experiment_fn and issues nothing after it has returned)
ContextSend(t, kind, options) ==
  /\ t_pc[t] = "ready"
  /\ t_count[t] < MaxRequests
  /\ loop_state # "panicked"
  /\ t = 1 => x_pc = "running"
  /\ action_queue' = Append(action_queue, Action(kind, t, options))
  /\ sent' = Append(sent, Action(kind, t, options))
  /\ t_count' = [t_count EXCEPT ![t] = @ + 1]
  /\ t_pc' = [t_pc EXCEPT ![t] = "sent"]
  /\ UNCHANGED <<wakeups, loop_state, reply_chan, x_pc, handled, empty_wakeups, not_loop_vars>>

\* self.event_loop_proxy.send_event(()): the result is dropped; a closed loop takes no event
ContextWake(t) ==
  /\ t_pc[t] = "sent"
  /\ wakeups' = IF loop_state = "running" THEN wakeups + 1 ELSE wakeups
  /\ t_pc' = [t_pc EXCEPT ![t] = "waiting"]
  /\ UNCHANGED <<action_queue, loop_state, t_count, reply_chan, x_pc, handled, sent,
                 empty_wakeups, not_loop_vars>>

\* the Sender<Window> moved into a CreateNewWindow action is dropped when its service panics
SenderDropped(t) ==
  \E k \in DOMAIN handled :
    /\ handled[k].from = t
    /\ handled[k].kind = "CreateNewWindow"
    /\ handled[k].outcome = "panicked"

\* receiver.recv(): blocks until the reply arrives; Err once the sender is dropped
ContextRecv(t) ==
  /\ t_pc[t] = "waiting"
  /\ IF reply_chan[t] # <<>>
       THEN /\ reply_chan' = [reply_chan EXCEPT ![t] = Tail(@)]
            /\ t_pc' = [t_pc EXCEPT ![t] = "ready"]
       ELSE /\ SenderDropped(t)
            /\ t_pc' = [t_pc EXCEPT ![t] = "failed"]
            /\ UNCHANGED reply_chan
  /\ UNCHANGED <<action_queue, wakeups, loop_state, t_count, x_pc, handled, sent, empty_wakeups,
                 not_loop_vars>>

\* App::run_experiment, after experiment_fn: action_sender.send(Exit(None))
ExitSend ==
  /\ x_pc = "running"
  /\ t_pc[1] = "ready"
  /\ loop_state # "panicked"
  /\ action_queue' = Append(action_queue, Action("Exit", 0, NoOptions))
  /\ x_pc' = "exit_sent"
  /\ UNCHANGED <<wakeups, loop_state, t_pc, t_count, reply_chan, handled, sent, empty_wakeups,
                 not_loop_vars>>

\* event_loop_proxy2.send_event(())
ExitWake ==
  /\ x_pc = "exit_sent"
  /\ wakeups' = IF loop_state = "running" THEN wakeups + 1 ELSE wakeups
  /\ x_pc' = "done"
  /\ UNCHANGED <<action_queue, loop_state, t_pc, t_count, reply_chan, handled, sent,
                 empty_wakeups, not_loop_vars>>

Handled(a, outcome) == [kind |-> a.kind, from |-> a.from, options |-> a.options,
                        outcome |-> outcome]

\* App::create_window reaches window_options.monitor().unwrap()
CreateWindowPanics(options) == IsNone(OptionsMonitor(options))

\* App::user_event: one try_recv per user event; an empty channel is skipped by map
UserEvent ==
  /\ loop_state = "running"
  /\ wakeups > 0
  /\ wakeups' = wakeups - 1
  /\ IF action_queue = <<>>
       THEN /\ empty_wakeups' = empty_wakeups + 1
            /\ UNCHANGED <<action_queue, loop_state, reply_chan, handled>>
       ELSE LET a == Head(action_queue) IN
            /\ action_queue' = Tail(action_queue)
            /\ UNCHANGED empty_wakeups
            /\ IF a.kind = "Exit"
                 THEN /\ loop_state' = "exited"
                      /\ handled' = Append(handled, Handled(a, "exit"))
                      /\ UNCHANGED reply_chan
                 ELSE IF a.kind = "CreateNewWindow" /\ CreateWindowPanics(a.options)
                   THEN /\ loop_state' = "panicked"
                        /\ handled' = Append(handled, Handled(a, "panicked"))
                        /\ UNCHANGED reply_chan
                   ELSE /\ reply_chan' = [reply_chan EXCEPT ![a.from] = Append(@, a.kind)]
                        /\ handled' = Append(handled, Handled(a, "replied"))
                        /\ UNCHANGED loop_state
  /\ UNCHANGED <<t_pc, t_count, x_pc, sent, not_loop_vars>>

NextLoop ==
  \/ \E t \in Threads, kind \in RequestKinds :
       \E options \in RequestOptions(kind) : ContextSend(t, kind, options)
  \/ \E t \in Threads : ContextWake(t)
  \/ \E t \in Threads : ContextRecv(t)
  \/ ExitSend
  \/ ExitWake
  \/ UserEvent

SpecLoop == Init /\ [][NextLoop]_vars

\* the requests among the handled actions, as they were sent
HandledRequests == SelectSeq(handled, LAMBDA h : h.kind # "Exit")
IsPrefix(a, b) == Len(a) <= Len(b) /\ \A k \in 1..Len(a) : a[k] = b[k]
Replies(t) == Cardinality({k \in DOMAIN handled : handled[k].from = t /\ handled[k].outcome = "replied"})
Serviced(t) == Cardinality({k \in DOMAIN handled : handled[k].from = t})

\* the queue discipline alone: every delivered user event found an action, the requests
\* were dequeued in the order they were sent, and no thread got more replies than requests
LoopQueueDiscipline ==
  /\ empty_wakeups = 0
  /\ IsPrefix([k \in DOMAIN HandledRequests |->
                 Action(HandledRequests[k].kind, HandledRequests[k].from,
                        HandledRequests[k].options)], sent)
  /\ \A t \in Threads : Replies(t) <= t_count[t] /\ Len(reply_chan[t]) <= 1

\* C15: every create_window or get_available_monitors request that the event loop has
\* dequeued was serviced with exactly one reply on its own channel, every wake-up found a
\* pending action, and the requests were serviced in the order they were sent.
C15_RequestsServicedOnce ==
  /\ LoopQueueDiscipline
  /\ \A t \in Threads : Serviced(t) = Replies(t)
  /\ \A t \in Threads : t_pc[t] # "failed"

\* C16: every create_window request that the event loop has dequeued, whatever its
\* WindowOptions variant and whether or not it names a monitor, was answered with a window.
C16_CreateWindowAnyOptions ==
  \A k \in DOMAIN handled :
    handled[k].kind = "CreateNewWindow" => handled[k].outcome = "replied"

\* ------------------------------------------------------------ WgpuRenderer::new
not_lut_vars == <<surf_vars, disp_vars, handle_vars, main_vars, loop_vars, contains_vars,
                  video_vars, tail_vars>>

\* the side of the LUT texture array and of an accepted LUT image
LutSize == 256
\* LUT images tried are up to this much narrower, wider, lower or higher than LutSize
MaxLutDelta == 2

LutDims == (LutSize - MaxLutDelta)..(LutSize + MaxLutDelta)
LutArgs == {None} \cup {Some([width |-> w, height |-> h]) : w \in LutDims, h \in LutDims}

\* WgpuRenderer::new(window, .., lut, encode_gamma): the texture and
\* create_lut_texture_array(&device, 256, 256)
WgpuRendererNew(l, g) ==
  /\ l_pc = "idle"
  /\ lut' = l
  /\ encode_gamma' = g
  /\ lut_texture_array' = Some([width |-> LutSize, height |-> LutSize, layers |-> 3])
  /\ l_pc' = "validate"
  /\ UNCHANGED <<lut_texture_data, lut_writes, not_lut_vars>>

\* mutant of LutValid: only the width is checked
LutValid_WidthOnly(l) == l.width = LutSize

\* assert_eq!(lut.width(), 256); assert_eq!(lut.height(), 256)
LutValid(l) == l.width = LutSize /\ l.height = LutSize

\* if let Some(lut) = lut: the two assertions; a failed assertion panics
WgpuRendererValidateLut ==
  /\ l_pc = "validate"
  /\ l_pc' = IF IsSome(lut) /\ ~LutValid(Unwrap(lut)) THEN "panicked" ELSE "build"
  /\ UNCHANGED <<lut, encode_gamma, lut_texture_array, lut_texture_data, lut_writes,
                 not_lut_vars>>

\* lut.get_pixel(i % 256, i / 256) for i in 0..256 * 256 panics out of the image's bounds
GetPixelPanics(l) == l.width < LutSize \/ l.height < LutSize

\* the three planes of 256 * 256 bytes, from the image or from the sRGB encoding function
WgpuRendererBuildLutData ==
  /\ l_pc = "build"
  /\ IF IsSome(lut) /\ GetPixelPanics(Unwrap(lut))
       THEN l_pc' = "panicked" /\ UNCHANGED lut_texture_data
       ELSE /\ lut_texture_data' = Some([len |-> 3 * LutSize * LutSize,
                                         source |-> IF IsSome(lut) THEN "image" ELSE "srgb"])
            /\ l_pc' = "write"
  /\ UNCHANGED <<lut, encode_gamma, lut_texture_array, lut_writes, not_lut_vars>>

\* queue.write_texture(&lut_texture_array, &lut_texture_data, 256 x 256 x 3), then the
\* gamma buffer and the bind group
WgpuRendererWriteLut ==
  /\ l_pc = "write"
  /\ lut_writes' = Append(lut_writes, Unwrap(lut_texture_data))
  /\ l_pc' = "done"
  /\ UNCHANGED <<lut, encode_gamma, lut_texture_array, lut_texture_data, not_lut_vars>>

NextLut ==
  \/ \E l \in LutArgs, g \in BOOLEAN : WgpuRendererNew(l, g)
  \/ WgpuRendererValidateLut
  \/ WgpuRendererBuildLutData
  \/ WgpuRendererWriteLut

SpecLut == Init /\ [][NextLut]_vars

\* a custom LUT image that is not 256 by 256
LutRejected == IsSome(lut) /\ (Unwrap(lut).width # LutSize \/ Unwrap(lut).height # LutSize)

not_contains_vars == <<surf_vars, disp_vars, handle_vars, main_vars, loop_vars, lut_vars,
                       video_vars, tail_vars>>

\* largest magnitude of a position coordinate, largest width and height tried
MaxCoord == 1
MaxExtent == 2

FAdd(a, b) == Rat(a.num * b.den + b.num * a.den, a.den * b.den)
FGe(a, b) == a.num * b.den >= b.num * a.den
FLe(a, b) == FGe(b, a)

\* App::create_window: width_mm = 300.0
ScreenWidthMm == 300

\* PhysicalScreen::new: pixel_density = width_px / width_mm, set when the window is created
PhysicalScreen == [pixel_density |-> Rat(InitialSize[1], ScreenWidthMm)]

\* Size::eval(window_size, screen_props): the length in pixels
SizeEval(sz, window_size, screen_props) ==
  IF sz.unit = "px"
    THEN Rat(sz.value, 1)
    ELSE FMul(Rat(sz.value, 1), screen_props.pixel_density)

Identity == [kind |-> "Identity", dx |-> Size("px", 0), dy |-> Size("px", 0)]
Translation(dx, dy) == [kind |-> "Translation", dx |-> dx, dy |-> dy]

\* Transformation2D::eval(window_size, screen_props): the 3 x 3 matrix, by rows
TransformationEval(t, window_size, screen_props) ==
  LET zero == Rat(0, 1)
      one == Rat(1, 1) IN
    IF t.kind = "Identity"
      THEN <<<<one, zero, zero>>, <<zero, one, zero>>, <<zero, zero, one>>>>
      ELSE <<<<one, zero, SizeEval(t.dx, window_size, screen_props)>>,
             <<zero, one, SizeEval(t.dy, window_size, screen_props)>>,
             <<zero, zero, one>>>>

\* nalgebra: Matrix3 * Vector3
MatVec(m, v) ==
  [r \in 1..3 |-> FAdd(FAdd(FMul(m[r][1], v[1]), FMul(m[r][2], v[2])), FMul(m[r][3], v[3]))]

\* mutant of ImageStimulusContains: the rectangle's edges are excluded
ImageStimulusContains_Strict(st, x, y, window_size, screen_props) ==
  LET ix == SizeEval(st.x, window_size, screen_props)
      iy == SizeEval(st.y, window_size, screen_props)
      width == SizeEval(st.width, window_size, screen_props)
      height == SizeEval(st.height, window_size, screen_props)
      trans_mat == TransformationEval(st.transformation, window_size, screen_props)
      p == <<SizeEval(x, window_size, screen_props), SizeEval(y, window_size, screen_props),
             Rat(1, 1)>>
      p_new == MatVec(trans_mat, p) IN
    /\ FGt(p_new[1], ix) /\ FGt(FAdd(ix, width), p_new[1])
    /\ FGt(p_new[2], iy) /\ FGt(FAdd(iy, height), p_new[2])

\* ImageStimulus::contains, after window_state.as_ref().unwrap()
ImageStimulusContains(st, x, y, window_size, screen_props) ==
  LET ix == SizeEval(st.x, window_size, screen_props)
      iy == SizeEval(st.y, window_size, screen_props)
      width == SizeEval(st.width, window_size, screen_props)
      height == SizeEval(st.height, window_size, screen_props)
      trans_mat == TransformationEval(st.transformation, window_size, screen_props)
      p == <<SizeEval(x, window_size, screen_props), SizeEval(y, window_size, screen_props),
             Rat(1, 1)>>
      p_new == MatVec(trans_mat, p) IN
    /\ FGe(p_new[1], ix) /\ FLe(p_new[1], FAdd(ix, width))
    /\ FGe(p_new[2], iy) /\ FLe(p_new[2], FAdd(iy, height))

\* VideoStimulus::contains, after window_state.as_ref().unwrap()
VideoStimulusContains(st, x, y, window_size, screen_props) ==
  LET ix == SizeEval(st.x, window_size, screen_props)
      iy == SizeEval(st.y, window_size, screen_props)
      width == SizeEval(st.width, window_size, screen_props)
      height == SizeEval(st.height, window_size, screen_props)
      trans_mat == TransformationEval(st.transformation, window_size, screen_props)
      p == <<SizeEval(x, window_size, screen_props), SizeEval(y, window_size, screen_props),
             Rat(1, 1)>>
      p_new == MatVec(trans_mat, p) IN
    /\ FGe(p_new[1], ix) /\ FLe(p_new[1], FAdd(ix, width))
    /\ FGe(p_new[2], iy) /\ FLe(p_new[2], FAdd(iy, height))

Units == {"px", "mm"}
StimulusKinds == {"image", "video"}
Transformations == {Identity, Translation(Size("px", 1), Size("px", 0))}

\* ImageStimulus::from_image / VideoStimulus::from_path: a stimulus at (x, y) of
\* width by height, all in one unit
StimulusNew(kind, unit, x, y, width, height, t) ==
  /\ c_stim.kind = "none"
  /\ c_stim' = [kind |-> kind, x |-> Size(unit, x), y |-> Size(unit, y),
                width |-> Size(unit, width), height |-> Size(unit, height),
                transformation |-> t]
  /\ UNCHANGED <<c_point, c_result, not_contains_vars>>

\* the points tried: the position, the far point (x + 10 w, y + 10 h), the opposite
\* corner and a point just off the position
TestCoords(v, extent) == {v, v + 10 * extent, v + extent, v - 1}

\* stimulus.contains(x, y, window): window.state.lock().unwrap(), as_ref().unwrap()
StimulusContains(x, y) ==
  /\ c_stim.kind # "none"
  /\ c_result = "none"
  /\ c_point' = [x |-> Size(c_stim.x.unit, x), y |-> Size(c_stim.y.unit, y)]
  /\ c_result' =
       IF ~state_open THEN "Panic"
       ELSE BoolStr(IF c_stim.kind = "image"
                      THEN ImageStimulusContains(c_stim, c_point'.x, c_point'.y, size,
                                                 PhysicalScreen)
                      ELSE VideoStimulusContains(c_stim, c_point'.x, c_point'.y, size,
                                                 PhysicalScreen))
  /\ UNCHANGED <<c_stim, not_contains_vars>>

NextContains ==
  \/ \E kind \in StimulusKinds, unit \in Units, x \in -MaxCoord..MaxCoord,
        y \in -MaxCoord..MaxCoord, width \in 0..MaxExtent, height \in 0..MaxExtent,
        t \in Transformations : StimulusNew(kind, unit, x, y, width, height, t)
  \/ \E x \in TestCoords(c_stim.x.value, c_stim.width.value),
        y \in TestCoords(c_stim.y.value, c_stim.height.value) : StimulusContains(x, y)
  \/ Close

SpecContains == Init /\ [][NextContains]_vars

\* C19: for an image or video stimulus with the identity transformation at (x, y) of
\* width w >= 0 and height h >= 0, contains returns true for the point (x, y), and false
\* for the point (x + 10 w, y + 10 h) when that point is not the position itself.
C19_ContainsOwnPointNotFarPoint ==
  (c_result \in {"true", "false"} /\ c_stim.transformation = Identity) =>
    /\ (c_point.x = c_stim.x /\ c_point.y = c_stim.y) => c_result = "true"
    /\ (/\ c_point.x.value = c_stim.x.value + 10 * c_stim.width.value
        /\ c_point.y.value = c_stim.y.value + 10 * c_stim.height.value
        /\ (c_stim.width.value > 0 \/ c_stim.height.value > 0)) => c_result = "false"

\* contains was called on a video stimulus in millimetres with its own position
C19_Witness ==
  /\ c_stim.kind = "video"
  /\ c_stim.x.unit = "mm"
  /\ c_stim.transformation = Identity
  /\ c_stim.width.value > 0
  /\ c_point.x = c_stim.x /\ c_point.y = c_stim.y
  /\ c_result = "true"

\* ------------------------------------------------------------ VideoStimulus::from_path
not_video_vars == <<surf_vars, disp_vars, handle_vars, main_vars, loop_vars, lut_vars,
                    contains_vars, tail_vars>>

\* what the file holds: a video stream, only an audio stream, data decodebin cannot
\* decode, or no file at all
Media == {"video", "audio_only", "undecodable", "missing"}

\* VideoStimulus::from_path(path, ..): context.gpu_state.lock().unwrap()
VideoFromPath(m) ==
  /\ v_pc = "idle"
  /\ "gpu" \notin d_holds \cup ExpHolds
  /\ media' = m
  /\ v_pc' = "create"
  /\ UNCHANGED <<status, gst_pc, bus_pc, bus_msgs, pipeline_state, surf_vars, disp_vars,
                 not_video_vars>>

\* Self::create_pipeline(..).unwrap(): an element that cannot be made is an Err; on Ok the
\* pad-added callback is connected and start_pipeline has spawned the bus thread
VideoCreatePipeline(ok) ==
  /\ v_pc = "create"
  /\ IF ok
       THEN v_pc' = "set_paused" /\ bus_pc' = "running"
       ELSE v_pc' = "panicked" /\ UNCHANGED bus_pc
  /\ UNCHANGED <<media, status, gst_pc, bus_msgs, pipeline_state, surf_vars, disp_vars,
                 not_video_vars>>

\* pipeline.set_state(gstreamer::State::Paused).unwrap(): filesrc fails on a missing file
VideoSetPaused ==
  /\ v_pc = "set_paused"
  /\ IF media = "missing"
       THEN /\ v_pc' = "panicked"
            /\ bus_msgs' = Append(bus_msgs, "Error")
            /\ UNCHANGED <<gst_pc, pipeline_state>>
       ELSE /\ v_pc' = "poll"
            /\ gst_pc' = "prerolling"
            /\ pipeline_state' = "Paused"
            /\ UNCHANGED bus_msgs
  /\ UNCHANGED <<media, status, bus_pc, surf_vars, disp_vars, not_video_vars>>

\* one turn of the loop: match *(status.get()) { Ready => break, Errored => panic!, _ => continue }
VideoPoll ==
  /\ v_pc = "poll"
  /\ v_pc' = IF status = "Ready" THEN "texture"
             ELSE IF status = "Errored" THEN "panicked"
             ELSE "poll"
  /\ UNCHANGED <<media, status, gst_pc, bus_pc, bus_msgs, pipeline_state, surf_vars, disp_vars,
                 not_video_vars>>

\* the texture, the placeholder image and the VideoStimulus; the guard drops on return
VideoCreateTexture ==
  /\ v_pc = "texture"
  /\ v_pc' = "returned"
  /\ UNCHANGED <<media, status, gst_pc, bus_pc, bus_msgs, pipeline_state, surf_vars, disp_vars,
                 not_video_vars>>

\* the streaming thread: decodebin's pad-added callback for a video pad swaps the status to
\* Ready when insert_sink succeeds (linked == TRUE); an audio pad leaves the status alone;
\* undecodable data posts an Error on the bus and adds no pad
GstPreroll(linked) ==
  /\ gst_pc = "prerolling"
  /\ gst_pc' = "done"
  /\ status' = IF media = "video" /\ linked THEN "Ready" ELSE status
  /\ bus_msgs' = IF media = "undecodable" THEN Append(bus_msgs, "Error") ELSE bus_msgs
  /\ UNCHANGED <<v_pc, media, bus_pc, pipeline_state, surf_vars, disp_vars, not_video_vars>>

\* start_pipeline's thread: for msg in bus.iter_timed(NONE): an Error sets the pipeline to
\* Null and is printed, Eos ends the loop; the status is not written
BusMessage ==
  /\ bus_pc = "running"
  /\ bus_msgs # <<>>
  /\ bus_msgs' = Tail(bus_msgs)
  /\ IF Head(bus_msgs) = "Eos"
       THEN bus_pc' = "ended"
       ELSE UNCHANGED bus_pc
  /\ pipeline_state' = "Null"
  /\ UNCHANGED <<v_pc, media, status, gst_pc, surf_vars, disp_vars, not_video_vars>>

NextVideo ==
  \/ \E m \in Media : VideoFromPath(m)
  \/ \E ok \in BOOLEAN : VideoCreatePipeline(ok)
  \/ VideoSetPaused
  \/ VideoPoll
  \/ VideoCreateTexture
  \/ \E linked \in BOOLEAN : GstPreroll(linked)
  \/ BusMessage
  \/ \E sz \in PixelSizes : WindowEventResized(sz)
  \/ \E k \in 1..2 : WindowResizeLock(k)
  \/ WindowResize

SpecVideo == Init /\ [][NextVideo]_vars

\* the threads are scheduled fairly: each of them eventually takes its next step
SpecVideoFair ==
  /\ SpecVideo
  /\ WF_vars(VideoPoll) /\ WF_vars(VideoSetPaused) /\ WF_vars(VideoCreateTexture)
  /\ WF_vars(\E ok \in BOOLEAN : VideoCreatePipeline(ok))
  /\ WF_vars(\E linked \in BOOLEAN : GstPreroll(linked))
  /\ WF_vars(BusMessage)
  /\ WF_vars(\E k \in 1..2 : WindowResizeLock(k))
  /\ WF_vars(WindowResize)

\* the pipeline has nothing more to report: the streaming thread is done and the bus is empty
PipelineQuiet == gst_pc = "done" /\ bus_msgs = <<>>

\* C20: VideoStimulus::from_path is never left polling for Ready with the gpu-state lock
\* held once the pipeline has nothing more to report: whatever the file holds, the call
\* returns or fails and releases the lock.
C20_FromPathNeverWedged ==
  ~(v_pc = "poll" /\ status = "NotReady" /\ PipelineQuiet)

\* the same as a progress property: a from_path that took the lock gives it back
FromPathReleasesLock == (v_pc = "create") ~> (v_pc \in {"returned", "panicked"})

\* ------------------------------------------------------------ App::create_window
\* App::create_window reads winit_window.inner_size() at line 194 (`first`) for size and the
\* surface configuration, then asks for borderless fullscreen (line 221), and only then
\* WgpuRenderer::new reads window.inner_size() again (`second`) for the intermediate
\* texture; whether the fullscreen request has already changed the inner size at the second
\* read is up to the platform
AppCreateWindow(first, second) ==
  /\ size = PixelSize(first)
  /\ surface_config = PixelSize(first)
  /\ texture = PixelSize(second)
  /\ bind_group = [texture |-> PixelSize(second)]

InitCreate ==
  /\ MainInit
  /\ RestInit
  /\ \E first \in PixelSizes, second \in PixelSizes : AppCreateWindow(first, second)

\* a fresh window, its display thread delivering Resized and cursor events, and present calls
SpecCreate == InitCreate /\ [][NextWindow]_vars

\* the width and height of the Scene of the iteration
SceneSize ==
  IF IsSome(scene_props)
    THEN Some([width |-> Unwrap(scene_props).width, height |-> Unwrap(scene_props).height])
    ELSE None

\* C21: at every iteration of Window::present, the intermediate texture handed to
\* renderer.render_to_texture has the width and height of the swapchain texture acquired
\* for the iteration and of the Scene created for it, from window creation onward.
C21_IntermediateTextureMatches ==
  pc = "rasterize" =>
    /\ SceneSize = surface_size
    /\ Some(texture) = surface_size

\* the part of it that the code does keep: the Scene has the size of the swapchain texture
SceneMatchesSurface == pc = "rasterize" => SceneSize = surface_size /\ IsSome(scene_props)

\* ------------------------------------------------------------ the background colour
\* Frame::set_bg_color(bg_color): the body is empty, no field of the Frame changes; the
\* model only notes the argument
FrameSetBgColor(c) ==
  /\ Idle
  /\ frame.set_bg_color_arg # c
  /\ frame' = [frame EXCEPT !.set_bg_color_arg = c]
  /\ UNCHANGED <<ext_vars, win_vars, env_vars, call_vars, pc>>

\* the positions of present at which the Scene of the iteration exists
ScenePcs == {"update", "draw", "rasterize"}

NextBg ==
  \/ WindowGetFrame
  \/ \E c \in Colors : WindowSetBgColor(c)
  \/ WindowOpReturn
  \/ \E c \in Colors : FrameSetBgColor(c)
  \/ \E s \in Stimuli : FrameAdd(s)
  \/ \E a \in HandlePresentArgs, repeat_update \in BOOLEAN : PresentCall(a, repeat_update)
  \/ PresentValidate
  \/ PresentGetRefreshRate
  \/ \E k \in 1..2 : PresentLock(k)
  \/ PresentResolve
  \/ PresentRegister
  \/ PresentAcquire
  \/ PresentCreateScene
  \/ PresentUpdateAnimations
  \/ PresentDraw
  \/ PresentRasterize
  \/ PresentComposite
  \/ PresentSurface
  \/ \E timed_out \in BOOLEAN : PresentWait(timed_out)
  \/ PresentOnset
  \/ PresentFinish
  \/ PresentReturn

SpecBg == Init /\ [][NextBg]_vars

\* C22: a Frame carries the colour last given to it (the window's bg_color at get_frame, or
\* the argument of Frame::set_bg_color), and every Scene that present fills and rasterizes
\* for the frame is cleared to that colour.
C22_SceneClearedToFrameColor ==
  pc \in ScenePcs => Unwrap(scene_props).bg_color = frame.set_bg_color_arg

\* ------------------------------------------------------------ App::run_experiment
not_run_vars == <<surf_vars, disp_vars, handle_vars, main_vars, lut_vars, contains_vars,
                  video_vars, hit_vars, multi_vars, d_handlers>>

ExperimentResults == {"Ok", "Err"}

\* the spawned thread: let res = experiment_fn(exp_manager)
ExperimentFnReturns(r) ==
  /\ x_pc = "running"
  /\ t_pc[1] = "ready"
  /\ res = "none"
  /\ res' = r
  /\ UNCHANGED <<error_mutex, run_result, loop_vars, not_run_vars>>

\* the spawned thread, after the Exit action and the wake-up:
\* if let Err(e) = res { *error_mutex_clone.lock().unwrap() = Some(e) }
ExitStoreError ==
  /\ x_pc = "done"
  /\ x_pc' = "finished"
  /\ error_mutex' = IF res = "Err" THEN Some("e") ELSE error_mutex
  /\ UNCHANGED <<res, run_result, action_queue, wakeups, loop_state, t_pc, t_count, reply_chan,
                 handled, sent, empty_wakeups, not_run_vars>>

\* the calling thread, once event_loop.run_app(self) has returned:
\* error_mutex.lock().unwrap().take(), Err(e) for Some(e) and Ok(()) for None
RunExperimentReturn ==
  /\ loop_state = "exited"
  /\ run_result = "none"
  /\ run_result' = IF IsSome(error_mutex) THEN "Err" ELSE "Ok"
  /\ error_mutex' = None
  /\ UNCHANGED <<res, loop_vars, not_run_vars>>

NextRun ==
  \/ \E t \in Threads, kind \in RequestKinds :
       \E options \in RequestOptions(kind) :
         (t = 1 => res = "none") /\ ContextSend(t, kind, options)
  \/ \E t \in Threads : ContextWake(t)
  \/ \E t \in Threads : ContextRecv(t)
  \/ \E r \in ExperimentResults : ExperimentFnReturns(r)
  \/ (res # "none" /\ ExitSend)
  \/ ExitWake
  \/ ExitStoreError
  \/ UserEvent
  \/ RunExperimentReturn

SpecRun == Init /\ [][NextRun]_vars

\* C23: if experiment_fn returns Err(e), run_experiment returns Err(e), whatever the order
\* in which the experiment thread stores the error and the calling thread reads it.
C23_ExperimentErrorIsReturned ==
  (res = "Err" /\ run_result # "none") => run_result = "Err"

\* ------------------------------------------------------------ hit tests during present
not_hit_vars == <<surf_vars, disp_vars, handle_vars, main_vars, loop_vars, lut_vars,
                  contains_vars, video_vars, run_vars, multi_vars, d_handlers>>

\* the caller of Stimulus::contains: the stimulus is behind the lock of its DynamicStimulus,
\* which the caller takes to reach contains(&self, ..)
StimulusLock(s) ==
  /\ k_pc = "idle"
  /\ s \notin ExpHoldsStimulus
  /\ k_pc' = "contains"
  /\ k_stim' = s
  /\ UNCHANGED not_hit_vars

\* ImageStimulus::contains / VideoStimulus::contains: window.state.lock().unwrap(),
\* as_ref().unwrap(), the test; both guards drop on return
ContainsStateLock ==
  /\ k_pc = "contains"
  /\ "state" \notin ExpHolds \cup d_holds
  /\ k_pc' = IF state_open THEN "idle" ELSE "panicked"
  /\ k_stim' = 0
  /\ UNCHANGED not_hit_vars

NextHit ==
  \/ \E s \in Stimuli : FrameAdd(s)
  \/ \E s \in Stimuli : StimulusLock(s)
  \/ ContainsStateLock
  \/ Close
  \/ \E a \in WindowPresentArgs, repeat_update \in BOOLEAN : PresentCall(a, repeat_update)
  \/ PresentValidate
  \/ PresentGetRefreshRate
  \/ \E k \in 1..2 : PresentLock(k)
  \/ PresentResolve
  \/ PresentRegister
  \/ PresentAcquire
  \/ PresentCreateScene
  \/ PresentUpdateAnimations
  \/ PresentDraw
  \/ PresentRasterize
  \/ PresentComposite
  \/ PresentSurface
  \/ \E timed_out \in BOOLEAN : PresentWait(timed_out)
  \/ PresentOnset
  \/ PresentFinish
  \/ PresentReturn

SpecHit == Init /\ [][NextHit]_vars

\* present holds the window state and waits for the lock of the stimulus it is about to
\* draw, while the hit-testing thread holds that lock and waits for the window state
PresentAndContainsDeadlocked ==
  /\ pc = "update"
  /\ "state" \in ExpHolds
  /\ k_pc = "contains"
  /\ frame.stimuli[stim_idx] \in HitHolds

\* C24: a contains call on a stimulus and a present of a frame that holds the same stimulus
\* never block each other for ever: no state is reached in which each of the two threads
\* waits for a lock the other holds.
C24_PresentAndContainsComplete == ~PresentAndContainsDeadlocked

\* ------------------------------------------------------------ the frame bookkeeping
\* C25: whenever no present call is in progress on the window, frame_queue holds no
\* frame id and frame_callbacks holds no callback, with dx12 and without, after any
\* sequence of present calls.
C25_BookkeepingEmptyWhenIdle ==
  Idle => (frame_queue = <<>> /\ DOMAIN frame_callbacks = {})

\* C26: a present call that returns Ok with an onset timestamp has performed at least one
\* swapchain present; a call that resolves to 0 iterations reports no onset timestamp.
C26_OnsetImpliesPresented ==
  (Returned /\ result = "Ok" /\ IsSome(onset_time)) => Count("present") >= 1

\* C27: a present call with repeat_frames only on an open window never aborts for want of a
\* refresh rate: it does not panic, and when it returns it has presented the requested
\* number of frames.
C27_RepeatFramesNeedsNoRefreshRate ==
  (state_open /\ IsNone(args.repeat_time) /\ ~Idle) =>
    /\ pc # "panicked"
    /\ Returned => (result = "Ok" /\ Count("present") = UnwrapOr(args.repeat_frames, 1))

\* C30: the onset callback that fires during a present call was taken under the frame id
\* assigned at the start of that call, and it invokes exactly the Onset handlers of the
\* frame being presented, whatever earlier calls left in frame_queue.
C30_CallbackIsOfThisCall ==
  \A k \in 1..Len(log) :
    log[k].op = "callback" =>
      /\ log[k].id = new_frame_id
      /\ log[k].handlers = OnsetHandlers(frame)

\* the second call fired its callback, with an Onset handler, while the frame id of an
\* earlier zero-iteration call was still in the queue
C30_Witness ==
  /\ Count("callback") = 1
  /\ snap.frame_queue # <<>>
  /\ OnsetHandlers(frame) # {}
  /\ Fired(1) = 1

\* ------------------------------------------------------------ windows sharing the gpu state
not_multi_vars == <<surf_vars, disp_vars, handle_vars, main_vars, loop_vars, lut_vars,
                    contains_vars, video_vars, run_vars, hit_vars, d_handlers>>

\* Window.gpu_state is one Arc<Mutex<GPUState>> for all windows, Window.state one mutex each
GpuLock == <<"gpu", "all">>
StateLockOf(w) == <<"state", w>>

\* the operations of the display thread (App::window_event) and of the experiment thread
MultiOps(t) == IF t = "display" THEN {"resize", "cursor"} ELSE {"resize", "present", "close"}

\* where an operation begins: resize with the gpu state, present with
\* get_current_refresh_rate, a cursor event with the window state
FirstStep(op) ==
  IF op = "resize" THEN "lock_gpu"
  ELSE IF op = "present" THEN "refresh"
  ELSE IF op = "cursor" THEN "lock_state"
  ELSE "close"

\* the thread t begins op on window w
MultiCall(t, op, w) ==
  /\ m_pc[t] = "idle"
  /\ m_pc' = [m_pc EXCEPT ![t] = FirstStep(op)]
  /\ m_op' = [m_op EXCEPT ![t] = [op |-> op, win |-> w]]
  /\ UNCHANGED <<w_open, poisoned, m_holds, m_result, not_multi_vars>>

\* no other thread holds the guard of l
MultiCanLock(t, l) == \A u \in MultiThreads \ {t} : l \notin m_holds[u]

\* a panic unwinds the thread: the guards it holds are dropped and their mutexes poisoned;
\* the display thread's panic ends the event loop, the experiment thread's panic is handed
\* to the caller as an error
MultiPanic(t, held) ==
  /\ poisoned' = poisoned \cup held
  /\ m_holds' = [m_holds EXCEPT ![t] = {}]
  /\ m_pc' = [m_pc EXCEPT ![t] = IF t = "display" THEN "panicked" ELSE "idle"]
  /\ m_result' = [m_result EXCEPT ![t] = [op |-> m_op[t].op, win |-> m_op[t].win,
                                          outcome |-> "Panic"]]

\* the operation returns: its guards are dropped
MultiReturn(t) ==
  /\ m_holds' = [m_holds EXCEPT ![t] = {}]
  /\ m_pc' = [m_pc EXCEPT ![t] = "idle"]
  /\ m_result' = [m_result EXCEPT ![t] = [op |-> m_op[t].op, win |-> m_op[t].win,
                                          outcome |-> "Ok"]]
  /\ UNCHANGED poisoned

\* Window::get_current_refresh_rate: self.state.lock().unwrap(), as_ref().unwrap() inside
\* the block that holds the guard
MultiGetRefreshRate(t) ==
  /\ m_pc[t] = "refresh"
  /\ MultiCanLock(t, StateLockOf(m_op[t].win))
  /\ IF StateLockOf(m_op[t].win) \in poisoned
       THEN MultiPanic(t, {})
       ELSE IF ~w_open[m_op[t].win]
         THEN MultiPanic(t, {StateLockOf(m_op[t].win)})
         ELSE /\ m_pc' = [m_pc EXCEPT ![t] = "lock_gpu"]
              /\ UNCHANGED <<poisoned, m_holds, m_result>>
  /\ UNCHANGED <<w_open, m_op, not_multi_vars>>

\* Window::close: self.state.lock().unwrap(), *win_state = None
MultiClose(t) ==
  /\ m_pc[t] = "close"
  /\ MultiCanLock(t, StateLockOf(m_op[t].win))
  /\ IF StateLockOf(m_op[t].win) \in poisoned
       THEN MultiPanic(t, {}) /\ UNCHANGED w_open
       ELSE MultiReturn(t) /\ w_open' = [w_open EXCEPT ![m_op[t].win] = FALSE]
  /\ UNCHANGED <<m_op, not_multi_vars>>

\* self.gpu_state.lock().unwrap() and self.state.lock().unwrap(): lock() is Err on a
\* poisoned mutex and unwrap panics
MultiLock(t, step) ==
  /\ m_pc[t] = step
  /\ LET l == IF step = "lock_gpu" THEN GpuLock ELSE StateLockOf(m_op[t].win) IN
       /\ MultiCanLock(t, l)
       /\ IF l \in poisoned
            THEN MultiPanic(t, m_holds[t])
            ELSE /\ m_holds' = [m_holds EXCEPT ![t] = @ \cup {l}]
                 /\ m_pc' = [m_pc EXCEPT ![t] = IF step = "lock_gpu" THEN "lock_state"
                                                 ELSE "unwrap"]
                 /\ UNCHANGED <<poisoned, m_result>>
  /\ UNCHANGED <<w_open, m_op, not_multi_vars>>

\* win_state.as_mut().unwrap() with the guards held, then the body of the operation
MultiUnwrap(t) ==
  /\ m_pc[t] = "unwrap"
  /\ IF ~w_open[m_op[t].win]
       THEN MultiPanic(t, m_holds[t])
       ELSE MultiReturn(t)
  /\ UNCHANGED <<w_open, m_op, not_multi_vars>>

NextMulti ==
  \/ \E t \in MultiThreads, w \in Windows : \E op \in MultiOps(t) : MultiCall(t, op, w)
  \/ \E t \in MultiThreads : MultiGetRefreshRate(t)
  \/ \E t \in MultiThreads : MultiClose(t)
  \/ \E t \in MultiThreads, step \in {"lock_gpu", "lock_state"} : MultiLock(t, step)
  \/ \E t \in MultiThreads : MultiUnwrap(t)

SpecMulti == Init /\ [][NextMulti]_vars

\* C28: closing window A does not break window B: while B is open the display thread keeps
\* running, the shared gpu-state mutex stays usable, and no present or resize on B fails,
\* whatever events and calls reach A after its close.
C28_CloseLeavesOtherWindowsUsable ==
  w_open["B"] =>
    /\ m_pc["display"] # "panicked"
    /\ GpuLock \notin poisoned
    /\ \A t \in MultiThreads : m_result[t].win = "B" => m_result[t].outcome = "Ok"

\* while every window is open nothing panics and no mutex is poisoned
AllOpenNothingBreaks ==
  (\A w \in Windows : w_open[w]) =>
    /\ poisoned = {}
    /\ \A t \in MultiThreads : m_pc[t] # "panicked" /\ m_result[t].outcome # "Panic"

\* ------------------------------------------------------------ the calls of user handlers
\* the kind of the events the display thread dispatches here
DispatchedKind == "CursorMoved"

\* Window::dispatch_event, first part: the registry is cloned inside a block that takes the
\* state lock and drops the guard at its end
WindowDispatchSnapshot ==
  /\ d_pc = "dispatch"
  /\ DisplayCanLock("state")
  /\ IF state_open
       THEN d_pc' = "handlers" /\ d_handlers' = event_handlers
       ELSE d_pc' = "panicked" /\ UNCHANGED d_handlers
  /\ UNCHANGED <<surf_vars, mouse_position, d_size, d_holds, d_during, last_resize, main_vars,
                 handle_vars, loop_vars, lut_vars, contains_vars, video_vars, run_vars,
                 hit_vars, multi_vars>>

\* the handlers of the clone whose kind is the event's
MatchingHandlers == {h \in DOMAIN d_handlers : d_handlers[h] = DispatchedKind}

\* Window::dispatch_event, second part: for each handler of the event's kind,
\* handled |= handler(event.clone())
WindowCallHandlers ==
  /\ d_pc = "handlers"
  /\ d_pc' = "idle"
  /\ d_handlers' = <<>>
  /\ UNCHANGED <<surf_vars, mouse_position, d_size, d_holds, d_during, last_resize, main_vars,
                 handle_vars, loop_vars, lut_vars, contains_vars, video_vars, run_vars,
                 hit_vars, multi_vars>>

\* the display thread is about to call at least one handler
DisplayCallsHandlers == d_pc = "handlers" /\ MatchingHandlers # {}

\* the experiment thread is at callback() of window.rs:370 and the closure holds at least
\* one Onset handler
PresentCallsHandlers ==
  /\ pc = "onset"
  /\ frame_queue # <<>>
  /\ Head(frame_queue) \in DOMAIN frame_callbacks
  /\ frame_callbacks[Head(frame_queue)] # {}

NextHandlers ==
  \/ \E id \in HandlerIds, kind \in EventKinds : FrameAddEventHandler(id, kind)
  \/ \E id \in HandlerIds : WindowAddEventHandler(id, DispatchedKind)
  \/ \E id \in HandlerIds : WindowRemoveEventHandler(id)
  \/ WindowOpReturn
  \/ Close
  \/ \E a \in HandlePresentArgs, repeat_update \in BOOLEAN : PresentCall(a, repeat_update)
  \/ PresentValidate
  \/ PresentGetRefreshRate
  \/ \E k \in 1..2 : PresentLock(k)
  \/ PresentResolve
  \/ PresentRegister
  \/ PresentAcquire
  \/ PresentCreateScene
  \/ PresentRasterize
  \/ PresentComposite
  \/ PresentSurface
  \/ \E timed_out \in BOOLEAN : PresentWait(timed_out)
  \/ PresentOnset
  \/ PresentFinish
  \/ PresentReturn
  \/ WindowEventCursorMoved
  \/ \E position \in CursorPositions : WindowCursorMoved(position)
  \/ WindowDispatchSnapshot
  \/ WindowCallHandlers

SpecHandlers == Init /\ [][NextHandlers]_vars

\* C29: no user-supplied handler is called while the calling thread holds the window-state
\* lock: neither the handlers dispatch_event calls on the display thread nor the Onset
\* handlers present calls on the experiment thread.
C29_HandlersCalledWithoutStateLock ==
  /\ DisplayCallsHandlers => "state" \notin d_holds
  /\ PresentCallsHandlers => "state" \notin ExpHolds

\* the half of it that holds: dispatch_event calls its handlers without the lock
DispatchCallsWithoutLock == DisplayCallsHandlers => "state" \notin d_holds
====
